---- MODULE Spec2Model ----
(***************************************************************************)
(* The serialization layer of lsp-types: the serde rules attached to the   *)
(* protocol's data types, modelled as pure functions between Rust values   *)
(* and JSON values, and a state machine whose steps apply them to inputs   *)
(* drawn from bounded sets.                                                *)
(*                                                                         *)
(* JSON values are one-field records, the field naming the JSON type:      *)
(*   [null |-> TRUE]  [bool |-> b]  [num |-> n]  [str |-> s]               *)
(*   [arr |-> <<j1, ..., jn>>]      [obj |-> [key |-> j]]                  *)
(* Rust values: bool, integer and string as themselves; Vec<T> a sequence; *)
(* Option<T> the empty sequence (None) or a one-element sequence (Some);   *)
(* a struct a record of its fields; an enum the one-field record           *)
(* [Variant |-> payload], the payload of a unit variant being <<>>.        *)
(* Result<T, E> is [ok |-> v] or [err |-> e].                              *)
(***************************************************************************)
EXTENDS Integers, Sequences, FiniteSets, TLC

VARIABLES op, ty, arg, wire, res

vars == <<op, ty, arg, wire, res>>

(* ------------------------------ JSON ---------------------------------- *)

JNull == [null |-> TRUE]

JBool(b) == [bool |-> b]

JNum(n) == [num |-> n]

JStr(s) == [str |-> s]

JArr(a) == [arr |-> a]

JObj(o) == [obj |-> o]

IsNull(j) == "null" \in DOMAIN j

IsBool(j) == "bool" \in DOMAIN j

IsNum(j) == "num" \in DOMAIN j

IsStr(j) == "str" \in DOMAIN j

IsArr(j) == "arr" \in DOMAIN j

IsObj(j) == "obj" \in DOMAIN j

\* The object with no key.
EmptyMap == [k \in {} |-> JNull]

(* ----------------------------- Results -------------------------------- *)

None == <<>>

IsNone(x) == Len(x) = 0

Some(v) == <<v>>

Ok(v) == [ok |-> v]

\* A decode error: its kind, the JSON value it reports, what was expected
\* (a type or an enum name) and, for an enum, the values that are valid.
Err(kind, got, what, valid) ==
    [err |-> [kind |-> kind, got |-> got, what |-> what, valid |-> valid]]

IsOk(r) == "ok" \in DOMAIN r

IsErr(r) == "err" \in DOMAIN r

(* ------------------- Enums encoded as integers ------------------------ *)
(* #[derive(Serialize_repr, Deserialize_repr)] #[repr(u8)]: each table     *)
(* lists the variants in declared order with their discriminants.          *)

DiagnosticSeverity ==
    << <<"Error", 1>>, <<"Warning", 2>>, <<"Information", 3>>, <<"Hint", 4>> >>

DiagnosticTag == << <<"Unnecessary", 1>>, <<"Deprecated", 2>> >>

CompletionItemTag == << <<"Deprecated", 1>> >>

TextDocumentSyncKind == << <<"None", 0>>, <<"Full", 1>>, <<"Incremental", 2>> >>

SignatureHelpTriggerKind ==
    << <<"Invoked", 1>>, <<"TriggerCharacter", 2>>, <<"ContentChange", 3>> >>

MessageType == << <<"Error", 1>>, <<"Warning", 2>>, <<"Info", 3>>, <<"Log", 4>> >>

TextDocumentSaveReason ==
    << <<"Manual", 1>>, <<"AfterDelay", 2>>, <<"FocusOut", 3>> >>

FileChangeType == << <<"Created", 1>>, <<"Changed", 2>>, <<"Deleted", 3>> >>

CompletionTriggerKind ==
    << <<"Invoked", 1>>, <<"TriggerCharacter", 2>>,
       <<"TriggerForIncompleteCompletions", 3>> >>

CompletionItemKind ==
    << <<"Text", 1>>, <<"Method", 2>>, <<"Function", 3>>, <<"Constructor", 4>>,
       <<"Field", 5>>, <<"Variable", 6>>, <<"Class", 7>>, <<"Interface", 8>>,
       <<"Module", 9>>, <<"Property", 10>>, <<"Unit", 11>>, <<"Value", 12>>,
       <<"Enum", 13>>, <<"Keyword", 14>>, <<"Snippet", 15>>, <<"Color", 16>>,
       <<"File", 17>>, <<"Reference", 18>>, <<"Folder", 19>>,
       <<"EnumMember", 20>>, <<"Constant", 21>>, <<"Struct", 22>>,
       <<"Event", 23>>, <<"Operator", 24>>, <<"TypeParameter", 25>> >>

InsertTextFormat == << <<"PlainText", 1>>, <<"Snippet", 2>> >>

DocumentHighlightKind == << <<"Text", 1>>, <<"Read", 2>>, <<"Write", 3>> >>

SymbolKind ==
    << <<"File", 1>>, <<"Module", 2>>, <<"Namespace", 3>>, <<"Package", 4>>,
       <<"Class", 5>>, <<"Method", 6>>, <<"Property", 7>>, <<"Field", 8>>,
       <<"Constructor", 9>>, <<"Enum", 10>>, <<"Interface", 11>>,
       <<"Function", 12>>, <<"Variable", 13>>, <<"Constant", 14>>,
       <<"String", 15>>, <<"Number", 16>>, <<"Boolean", 17>>, <<"Array", 18>>,
       <<"Object", 19>>, <<"Key", 20>>, <<"Null", 21>>, <<"EnumMember", 22>>,
       <<"Struct", 23>>, <<"Event", 24>>, <<"Operator", 25>>,
       <<"TypeParameter", 26>>,
       \* "Capturing all unknown enums by this lib."
       <<"Unknown", 255>> >>

SymbolTag == << <<"Deprecated", 1>> >>

InsertTextMode == << <<"AsIs", 1>>, <<"AdjustIndentation", 2>> >>

NotebookCellKind == << <<"Markup", 1>>, <<"Code", 2>> >>

ReprEnums ==
    { "DiagnosticSeverity", "DiagnosticTag", "CompletionItemTag",
      "TextDocumentSyncKind", "SignatureHelpTriggerKind", "MessageType",
      "TextDocumentSaveReason", "FileChangeType", "CompletionTriggerKind",
      "CompletionItemKind", "InsertTextFormat", "DocumentHighlightKind",
      "SymbolKind", "SymbolTag", "InsertTextMode", "NotebookCellKind" }

ReprTable(name) ==
    CASE name = "DiagnosticSeverity" -> DiagnosticSeverity
      [] name = "DiagnosticTag" -> DiagnosticTag
      [] name = "CompletionItemTag" -> CompletionItemTag
      [] name = "TextDocumentSyncKind" -> TextDocumentSyncKind
      [] name = "SignatureHelpTriggerKind" -> SignatureHelpTriggerKind
      [] name = "MessageType" -> MessageType
      [] name = "TextDocumentSaveReason" -> TextDocumentSaveReason
      [] name = "FileChangeType" -> FileChangeType
      [] name = "CompletionTriggerKind" -> CompletionTriggerKind
      [] name = "CompletionItemKind" -> CompletionItemKind
      [] name = "InsertTextFormat" -> InsertTextFormat
      [] name = "DocumentHighlightKind" -> DocumentHighlightKind
      [] name = "SymbolKind" -> SymbolKind
      [] name = "SymbolTag" -> SymbolTag
      [] name = "InsertTextMode" -> InsertTextMode
      [] name = "NotebookCellKind" -> NotebookCellKind

\* The value of an enum in a variant without fields.
Unit(variant) == (variant :> <<>>)

\* The variant a value of an enum is in.
VariantOf(v) == CHOOSE n \in DOMAIN v : TRUE

\* The values of an enum, and the integers its declaration gives them.
ReprVariants(name) == { Unit(ReprTable(name)[i][1]) : i \in DOMAIN ReprTable(name) }

Discriminants(name) == { ReprTable(name)[i][2] : i \in DOMAIN ReprTable(name) }

\* `variant as u8`.
Discriminant(name, variant) ==
    LET t == ReprTable(name)
    IN  t[CHOOSE i \in DOMAIN t : t[i][1] = VariantOf(variant)][2]

\* An encoding by the position of the variant in the declaration, from 1,
\* whatever discriminant the declaration gives it.
SerializeReprOrdinal(name, variant) ==
    LET t == ReprTable(name)
    IN  JNum(CHOOSE i \in DOMAIN t : t[i][1] = VariantOf(variant))

\* Serialize_repr: serializer.serialize_u8 of `*self as u8`.
SerializeRepr(name, variant) == JNum(Discriminant(name, variant))

\* A u8 read by truncation: the low eight bits of whatever number is given.
DeserializeU8Wrapping(j) ==
    IF ~IsNum(j) THEN Err("invalid_type", j, "u8", {})
    ELSE Ok(j.num % 256)

\* <u8 as Deserialize>::deserialize on a JSON value: a number outside
\* 0..=255 is an invalid value, never truncated; anything but a number is an
\* invalid type.
DeserializeU8(j) ==
    IF ~IsNum(j) THEN Err("invalid_type", j, "u8", {})
    ELSE IF j.num < 0 \/ j.num > 255 THEN Err("invalid_value", j, "u8", {})
    ELSE Ok(j.num)

\* A decode that tells a discriminant from the other integers and no more:
\* every discriminant gives the first variant.
DeserializeReprFirst(name, j) ==
    LET n == DeserializeU8(j)
        t == ReprTable(name)
    IN  IF IsErr(n) THEN n
        ELSE IF \E i \in DOMAIN t : t[i][2] = n.ok
             THEN Ok(Unit(t[1][1]))
             ELSE Err("invalid_value", j, name, Discriminants(name))

\* Deserialize_repr: read a u8, match it against the discriminants; with no
\* #[serde(other)] variant the fall-through arm is the error
\* "invalid value: {n}, expected one of: {d1}, {d2}, ...".
DeserializeRepr(name, j) ==
    LET n == DeserializeU8(j)
        t == ReprTable(name)
    IN  IF IsErr(n) THEN n
        ELSE IF \E i \in DOMAIN t : t[i][2] = n.ok
             THEN Ok(Unit(t[CHOOSE i \in DOMAIN t : t[i][2] = n.ok][1]))
             ELSE Err("invalid_value", j, name, Discriminants(name))

(* ----------------------------- WatchKind ------------------------------ *)
(* bitflags! { pub struct WatchKind: u8 { .. } }: a value is the record of *)
(* its bits field.                                                         *)

\* const Create = 1; const Change = 2; const Delete = 4;
WatchKindFlags == << <<"Create", 1>>, <<"Change", 2>>, <<"Delete", 4>> >>

\* Bit k of a u8.
Bit(n, k) == (n \div (2 ^ k)) % 2

\* m & n on u8
BitAnd(m, n) ==
    LET s[k \in 0..8] == IF k = 8 THEN 0 ELSE Bit(m, k) * Bit(n, k) * (2 ^ k) + s[k + 1]
    IN  s[0]

\* m | n on u8
BitOr(m, n) == m + n - BitAnd(m, n)

\* WatchKind::all().bits()
WatchKindAll ==
    BitOr(BitOr(WatchKindFlags[1][2], WatchKindFlags[2][2]), WatchKindFlags[3][2])

\* WatchKind::empty() | f1 | f2 ...: the value with the flags named in S.
WatchKindOf(S) ==
    LET b(i) == IF WatchKindFlags[i][1] \in S THEN WatchKindFlags[i][2] ELSE 0
    IN  [bits |-> BitOr(BitOr(BitOr(0, b(1)), b(2)), b(3))]

\* self.contains(flag)
Contains(w, flag) ==
    LET f == WatchKindFlags[CHOOSE i \in DOMAIN WatchKindFlags :
                               WatchKindFlags[i][1] = flag][2]
    IN  BitAnd(w.bits, f) = f

\* WatchKind::from_bits_truncate(i): the bits that name no flag are dropped.
FromBitsTruncate(i) == Some([bits |-> BitAnd(i, WatchKindAll)])

\* WatchKind::from_bits(i): None when a bit is set that names no flag.
FromBits(i) ==
    IF BitAnd(i, 255 - WatchKindAll) = 0 THEN Some([bits |-> i]) ELSE None

\* An encoding that writes how many flags are set.
SerializeWatchKindCount(w) ==
    JNum(Cardinality({ i \in DOMAIN WatchKindFlags : Contains(w, WatchKindFlags[i][1]) }))

\* impl Serialize for WatchKind: serializer.serialize_u8(self.bits())
SerializeWatchKind(w) == JNum(w.bits)

\* impl Deserialize for WatchKind: a u8, then from_bits, None being the
\* error invalid_value(Unexpected::Unsigned(i), &"Unknown flag").
DeserializeWatchKind(j) ==
    LET i == DeserializeU8(j)
    IN  IF IsErr(i) THEN i
        ELSE IF IsNone(FromBits(i.ok)) THEN Err("invalid_value", j, "Unknown flag", {})
        ELSE Ok(FromBits(i.ok)[1])

(* ------------------------- Type descriptors --------------------------- *)

TBool == [k |-> "bool"]

TU64 == [k |-> "u64"]

TI64 == [k |-> "i64"]

\* Every integer of the model is in the range of i32 and of i64.
TI32 == [k |-> "i32"]

TU32 == [k |-> "u32"]

TString == [k |-> "string"]

\* f64; the numbers of the model are the integers among its values.
TF64 == [k |-> "f64"]

\* HashMap<String, T> as a #[serde(flatten)] field: named is the set of keys
\* the other fields of its struct take before the map is given the rest.
FlatMap(t, named) == [k |-> "map", of |-> t, named |-> named]

\* serde_json::Value: any JSON value, kept as it is.
TValue == [k |-> "value"]

TUrl == [k |-> "url"]

TWatchKind == [k |-> "bitflags", name |-> "WatchKind"]

TTraceOption == [k |-> "trace", name |-> "TraceOption"]

\* [u64; 2]
TPair == [k |-> "pair"]

Vec(t) == [k |-> "vec", of |-> t]

Opt(t) == [k |-> "option", of |-> t]

Struct(n) == [k |-> "struct", name |-> n]

\* A generic struct and its type argument: TagSupport<T>.
StructOf(n, t) == [k |-> "struct", name |-> n, of |-> t]

Untagged(n) == [k |-> "untagged", name |-> n]

Repr(n) == [k |-> "repr", name |-> n]

\* pub type CodeActionResponse = Vec<CodeActionOrCommand>
CodeActionResponse == Vec(Untagged("CodeActionOrCommand"))

\* An enum of unit variants written as strings (rename_all = "lowercase").
Lowercase(n) == [k |-> "lowercase", name |-> n]

\* An internally tagged enum: #[serde(tag = "kind")].
Tagged(n) == [k |-> "tagged", name |-> n]

(* A struct's table lists its fields in declared order: the Rust name, the *)
(* JSON key (rename_all = "camelCase"), the type, and the serde attributes *)
(* of the field: skip (skip_serializing_if = "Option::is_none"), flatten,  *)
(* default, and with (the deserialize_with / with function).               *)
Field(f, key, t) ==
    [field |-> f, key |-> key, ty |-> t, skip |-> FALSE, flatten |-> FALSE,
     default |-> FALSE, with |-> ""]

SkipNone(f, key, t) == [Field(f, key, t) EXCEPT !.skip = TRUE]

Flatten(f, t) == [Field(f, "", t) EXCEPT !.flatten = TRUE]

DefaultSkipWith(f, key, t, w) ==
    [Field(f, key, t) EXCEPT !.skip = TRUE, !.default = TRUE, !.with = w]

\* #[serde(default)] alone.
Default(f, key, t) == [Field(f, key, t) EXCEPT !.default = TRUE]

\* #[serde(default)] and skip_serializing_if = "Option::is_none".
DefaultSkip(f, key, t) == [Field(f, key, t) EXCEPT !.default = TRUE, !.skip = TRUE]

\* deserialize_with and serialize_with alone.
With(f, key, t, w) == [Field(f, key, t) EXCEPT !.with = w]

Position == << Field("line", "line", TU64), Field("character", "character", TU64) >>

Range ==
    << Field("start", "start", Struct("Position")),
       Field("end", "end", Struct("Position")) >>

Location == << Field("uri", "uri", TUrl), Field("range", "range", Struct("Range")) >>

LocationLink ==
    << SkipNone("origin_selection_range", "originSelectionRange", Opt(Struct("Range"))),
       Field("target_uri", "targetUri", TUrl),
       Field("target_range", "targetRange", Struct("Range")),
       Field("target_selection_range", "targetSelectionRange", Struct("Range")) >>

Diagnostic ==
    << Field("range", "range", Struct("Range")),
       SkipNone("severity", "severity", Opt(Repr("DiagnosticSeverity"))),
       SkipNone("code", "code", Opt(Untagged("NumberOrString"))),
       SkipNone("source", "source", Opt(TString)),
       Field("message", "message", TString),
       SkipNone("related_information", "relatedInformation",
                Opt(Vec(Struct("DiagnosticRelatedInformation")))),
       SkipNone("tags", "tags", Opt(Vec(Repr("DiagnosticTag")))) >>

DiagnosticRelatedInformation ==
    << Field("location", "location", Struct("Location")),
       Field("message", "message", TString) >>

Command ==
    << Field("title", "title", TString),
       Field("command", "command", TString),
       SkipNone("arguments", "arguments", Opt(Vec(TValue))) >>

TextEdit ==
    << Field("range", "range", Struct("Range")),
       Field("new_text", "newText", TString) >>

TextDocumentEdit ==
    << Field("text_document", "textDocument", Struct("VersionedTextDocumentIdentifier")),
       Field("edits", "edits", Vec(Struct("TextEdit"))) >>

InsertReplaceEdit ==
    << Field("new_text", "newText", TString),
       Field("insert", "insert", Struct("Range")),
       Field("replace", "replace", Struct("Range")) >>

CreateFileOptions ==
    << SkipNone("overwrite", "overwrite", Opt(TBool)),
       SkipNone("ignore_if_exists", "ignoreIfExists", Opt(TBool)) >>

CreateFile ==
    << Field("uri", "uri", TUrl),
       SkipNone("options", "options", Opt(Struct("CreateFileOptions"))) >>

RenameFileOptions ==
    << SkipNone("overwrite", "overwrite", Opt(TBool)),
       SkipNone("ignore_if_exists", "ignoreIfExists", Opt(TBool)) >>

RenameFile ==
    << Field("old_uri", "oldUri", TUrl),
       Field("new_uri", "newUri", TUrl),
       SkipNone("options", "options", Opt(Struct("RenameFileOptions"))) >>

DeleteFileOptions ==
    << SkipNone("recursive", "recursive", Opt(TBool)),
       SkipNone("ignore_if_not_exists", "ignoreIfNotExists", Opt(TBool)) >>

DeleteFile ==
    << Field("uri", "uri", TUrl),
       SkipNone("options", "options", Opt(Struct("DeleteFileOptions"))) >>

WorkspaceEdit ==
    << DefaultSkipWith("changes", "changes", Opt(TValue), "url_map"),
       SkipNone("document_changes", "documentChanges", Opt(Untagged("DocumentChanges"))) >>

VersionedTextDocumentIdentifier ==
    << Field("uri", "uri", TUrl), Field("version", "version", Opt(TI64)) >>

DocumentFilter ==
    << SkipNone("language", "language", Opt(TString)),
       SkipNone("scheme", "scheme", Opt(TString)),
       SkipNone("pattern", "pattern", Opt(TString)) >>

GotoCapability ==
    << SkipNone("dynamic_registration", "dynamicRegistration", Opt(TBool)),
       Field("link_support", "linkSupport", Opt(TBool)) >>

SymbolKindCapability ==
    << Field("value_set", "valueSet", Opt(Vec(Repr("SymbolKind")))) >>

CompletionItemCapability ==
    << SkipNone("snippet_support", "snippetSupport", Opt(TBool)),
       SkipNone("commit_characters_support", "commitCharactersSupport", Opt(TBool)),
       SkipNone("documentation_format", "documentationFormat",
                Opt(Vec(Lowercase("MarkupKind")))),
       SkipNone("deprecated_support", "deprecatedSupport", Opt(TBool)),
       SkipNone("preselect_support", "preselectSupport", Opt(TBool)),
       DefaultSkipWith("tag_support", "tagSupport",
                       Opt(StructOf("TagSupport", Repr("CompletionItemTag"))),
                       "TagSupport::deserialize_compat"),
       SkipNone("insert_replace_support", "insertReplaceSupport", Opt(TBool)) >>

PublishDiagnosticsCapability ==
    << SkipNone("related_information", "relatedInformation", Opt(TBool)),
       DefaultSkipWith("tag_support", "tagSupport",
                       Opt(StructOf("TagSupport", Repr("DiagnosticTag"))),
                       "TagSupport::deserialize_compat") >>

TagSupport(t) == << Field("value_set", "valueSet", Vec(t)) >>

WorkDoneProgressOptions ==
    << SkipNone("work_done_progress", "workDoneProgress", Opt(TBool)) >>

HoverOptions ==
    << Flatten("work_done_progress_options", Struct("WorkDoneProgressOptions")) >>

StaticTextDocumentRegistrationOptions ==
    << Field("document_selector", "documentSelector", Opt(Vec(Struct("DocumentFilter")))),
       SkipNone("id", "id", Opt(TString)) >>

ColorProviderOptions == << >>

StaticTextDocumentColorProviderOptions ==
    << Field("document_selector", "documentSelector", Opt(Vec(Struct("DocumentFilter")))),
       SkipNone("id", "id", Opt(TString)) >>

LanguageString ==
    << Field("language", "language", TString), Field("value", "value", TString) >>

MarkupContent ==
    << Field("kind", "kind", Lowercase("MarkupKind")),
       Field("value", "value", TString) >>

DocumentSymbol ==
    << Field("name", "name", TString),
       SkipNone("detail", "detail", Opt(TString)),
       Field("kind", "kind", Repr("SymbolKind")),
       SkipNone("tags", "tags", Opt(Vec(Repr("SymbolTag")))),
       SkipNone("deprecated", "deprecated", Opt(TBool)),
       Field("range", "range", Struct("Range")),
       Field("selection_range", "selectionRange", Struct("Range")),
       SkipNone("children", "children", Opt(Vec(Struct("DocumentSymbol")))) >>

SymbolInformation ==
    << Field("name", "name", TString),
       Field("kind", "kind", Repr("SymbolKind")),
       SkipNone("tags", "tags", Opt(Vec(Repr("SymbolTag")))),
       SkipNone("deprecated", "deprecated", Opt(TBool)),
       Field("location", "location", Struct("Location")),
       SkipNone("container_name", "containerName", Opt(TString)) >>

CodeAction ==
    << Field("title", "title", TString),
       SkipNone("kind", "kind", Opt(TString)),
       SkipNone("diagnostics", "diagnostics", Opt(Vec(Struct("Diagnostic")))),
       SkipNone("edit", "edit", Opt(Struct("WorkspaceEdit"))),
       SkipNone("command", "command", Opt(Struct("Command"))),
       SkipNone("is_preferred", "isPreferred", Opt(TBool)) >>

CodeActionOptions ==
    << SkipNone("code_action_kinds", "codeActionKinds", Opt(Vec(TString))),
       Flatten("work_done_progress_options", Struct("WorkDoneProgressOptions")) >>

RenameOptions ==
    << SkipNone("prepare_provider", "prepareProvider", Opt(TBool)),
       Flatten("work_done_progress_options", Struct("WorkDoneProgressOptions")) >>

\* The struct variant PrepareRenameResponse::RangeWithPlaceholder { .. }.
RangeWithPlaceholder ==
    << Field("range", "range", Struct("Range")),
       Field("placeholder", "placeholder", TString) >>

FoldingProviderOptions == << >>

SelectionRangeOptions ==
    << Flatten("work_done_progress_options", Struct("WorkDoneProgressOptions")) >>

SelectionRangeRegistrationOptions ==
    << Flatten("selection_range_options", Struct("SelectionRangeOptions")),
       Flatten("registration_options", Struct("StaticTextDocumentRegistrationOptions")) >>

\* line: i32; tokens: default, skip_serializing_if, deserialize_with and
\* serialize_with of SemanticHighlightingToken.
SemanticHighlightingInformation ==
    << Field("line", "line", TI32),
       DefaultSkipWith("tokens", "tokens", Opt(Vec(Struct("SemanticHighlightingToken"))),
                       "SemanticHighlightingToken") >>

SemanticTokens ==
    << SkipNone("result_id", "resultId", Opt(TString)),
       With("data", "data", Vec(Struct("SemanticToken")), "SemanticToken::tokens") >>

SemanticTokensPartialResult ==
    << With("data", "data", Vec(Struct("SemanticToken")), "SemanticToken::tokens") >>

SemanticTokensEdit ==
    << Field("start", "start", TU32), Field("delete_count", "deleteCount", TU32),
       DefaultSkipWith("data", "data", Opt(Vec(Struct("SemanticToken"))),
                       "SemanticToken::tokens_opt") >>

GenericCapability ==
    << SkipNone("dynamic_registration", "dynamicRegistration", Opt(TBool)) >>

\* lib.rs and window.rs both declare it; work_done_progress is the field
\* of both when the feature "proposed" is off.
WindowClientCapabilities ==
    << SkipNone("work_done_progress", "workDoneProgress", Opt(TBool)) >>

\* The fields of WorkspaceClientCapabilities but workspace_edit and symbol,
\* whose keys no input holds.
WorkspaceClientCapabilities ==
    << SkipNone("apply_edit", "applyEdit", Opt(TBool)),
       SkipNone("did_change_configuration", "didChangeConfiguration",
                Opt(Struct("GenericCapability"))),
       SkipNone("did_change_watched_files", "didChangeWatchedFiles",
                Opt(Struct("GenericCapability"))),
       SkipNone("execute_command", "executeCommand", Opt(Struct("GenericCapability"))),
       SkipNone("workspace_folders", "workspaceFolders", Opt(TBool)),
       SkipNone("configuration", "configuration", Opt(TBool)) >>

\* The fields of TextDocumentClientCapabilities that are a GenericCapability,
\* a GotoCapability or the PublishDiagnosticsCapability; no input holds the
\* key of another.
TextDocumentClientCapabilities ==
    << SkipNone("references", "references", Opt(Struct("GenericCapability"))),
       SkipNone("document_highlight", "documentHighlight", Opt(Struct("GenericCapability"))),
       SkipNone("formatting", "formatting", Opt(Struct("GenericCapability"))),
       SkipNone("range_formatting", "rangeFormatting", Opt(Struct("GenericCapability"))),
       SkipNone("on_type_formatting", "onTypeFormatting", Opt(Struct("GenericCapability"))),
       SkipNone("declaration", "declaration", Opt(Struct("GotoCapability"))),
       SkipNone("definition", "definition", Opt(Struct("GotoCapability"))),
       SkipNone("type_definition", "typeDefinition", Opt(Struct("GotoCapability"))),
       SkipNone("implementation", "implementation", Opt(Struct("GotoCapability"))),
       SkipNone("code_lens", "codeLens", Opt(Struct("GenericCapability"))),
       SkipNone("color_provider", "colorProvider", Opt(Struct("GenericCapability"))),
       SkipNone("publish_diagnostics", "publishDiagnostics",
                Opt(Struct("PublishDiagnosticsCapability"))) >>

ClientCapabilities ==
    << SkipNone("workspace", "workspace", Opt(Struct("WorkspaceClientCapabilities"))),
       SkipNone("text_document", "textDocument",
                Opt(Struct("TextDocumentClientCapabilities"))),
       SkipNone("window", "window", Opt(Struct("WindowClientCapabilities"))),
       SkipNone("experimental", "experimental", Opt(TValue)) >>

\* No rename_all: the keys are the field names.
ClientInfo ==
    << Field("name", "name", TString), SkipNone("version", "version", Opt(TString)) >>

WorkspaceFolder ==
    << Field("uri", "uri", TUrl), Field("name", "name", TString) >>

\* The variant and the string #[serde(rename)] gives it.
TraceOption ==
    << <<"Off", "off">>, <<"Messages", "messages">>, <<"Verbose", "verbose">> >>

InitializeParams ==
    << Field("process_id", "processId", Opt(TU64)),
       SkipNone("root_path", "rootPath", Opt(TString)),
       Default("root_uri", "rootUri", Opt(TUrl)),
       SkipNone("initialization_options", "initializationOptions", Opt(TValue)),
       Field("capabilities", "capabilities", Struct("ClientCapabilities")),
       DefaultSkip("trace", "trace", Opt(TTraceOption)),
       SkipNone("workspace_folders", "workspaceFolders",
                Opt(Vec(Struct("WorkspaceFolder")))),
       SkipNone("client_info", "clientInfo", Opt(Struct("ClientInfo"))) >>

\* The fields of FormattingOptions that have a key of their own.
FormattingOptionsNamed ==
    << Field("tab_size", "tabSize", TU64),
       Field("insert_spaces", "insertSpaces", TBool),
       SkipNone("trim_trailing_whitespace", "trimTrailingWhitespace", Opt(TBool)),
       SkipNone("insert_final_newline", "insertFinalNewline", Opt(TBool)),
       SkipNone("trim_final_newlines", "trimFinalNewlines", Opt(TBool)) >>

FormattingOptions ==
    SubSeq(FormattingOptionsNamed, 1, 2)
    \o << Flatten("properties",
                  FlatMap(Untagged("FormattingProperty"),
                          { FormattingOptionsNamed[i].key : i \in DOMAIN FormattingOptionsNamed })) >>
    \o SubSeq(FormattingOptionsNamed, 3, 5)

StructFields(t) ==
    CASE t.name = "Position" -> Position
      [] t.name = "FormattingOptions" -> FormattingOptions
      [] t.name = "GenericCapability" -> GenericCapability
      [] t.name = "WindowClientCapabilities" -> WindowClientCapabilities
      [] t.name = "WorkspaceClientCapabilities" -> WorkspaceClientCapabilities
      [] t.name = "TextDocumentClientCapabilities" -> TextDocumentClientCapabilities
      [] t.name = "ClientCapabilities" -> ClientCapabilities
      [] t.name = "ClientInfo" -> ClientInfo
      [] t.name = "WorkspaceFolder" -> WorkspaceFolder
      [] t.name = "InitializeParams" -> InitializeParams
      [] t.name = "SemanticTokens" -> SemanticTokens
      [] t.name = "SemanticTokensPartialResult" -> SemanticTokensPartialResult
      [] t.name = "SemanticTokensEdit" -> SemanticTokensEdit
      [] t.name = "SemanticHighlightingInformation" -> SemanticHighlightingInformation
      [] t.name = "Range" -> Range
      [] t.name = "Location" -> Location
      [] t.name = "LocationLink" -> LocationLink
      [] t.name = "Diagnostic" -> Diagnostic
      [] t.name = "DiagnosticRelatedInformation" -> DiagnosticRelatedInformation
      [] t.name = "Command" -> Command
      [] t.name = "TextEdit" -> TextEdit
      [] t.name = "TextDocumentEdit" -> TextDocumentEdit
      [] t.name = "InsertReplaceEdit" -> InsertReplaceEdit
      [] t.name = "CreateFileOptions" -> CreateFileOptions
      [] t.name = "CreateFile" -> CreateFile
      [] t.name = "RenameFileOptions" -> RenameFileOptions
      [] t.name = "RenameFile" -> RenameFile
      [] t.name = "DeleteFileOptions" -> DeleteFileOptions
      [] t.name = "DeleteFile" -> DeleteFile
      [] t.name = "WorkspaceEdit" -> WorkspaceEdit
      [] t.name = "VersionedTextDocumentIdentifier" -> VersionedTextDocumentIdentifier
      [] t.name = "DocumentFilter" -> DocumentFilter
      [] t.name = "GotoCapability" -> GotoCapability
      [] t.name = "SymbolKindCapability" -> SymbolKindCapability
      [] t.name = "CompletionItemCapability" -> CompletionItemCapability
      [] t.name = "PublishDiagnosticsCapability" -> PublishDiagnosticsCapability
      [] t.name = "TagSupport" -> TagSupport(t.of)
      [] t.name = "WorkDoneProgressOptions" -> WorkDoneProgressOptions
      [] t.name = "HoverOptions" -> HoverOptions
      [] t.name = "StaticTextDocumentRegistrationOptions" ->
            StaticTextDocumentRegistrationOptions
      [] t.name = "ColorProviderOptions" -> ColorProviderOptions
      [] t.name = "StaticTextDocumentColorProviderOptions" ->
            StaticTextDocumentColorProviderOptions
      [] t.name = "LanguageString" -> LanguageString
      [] t.name = "MarkupContent" -> MarkupContent
      [] t.name = "DocumentSymbol" -> DocumentSymbol
      [] t.name = "SymbolInformation" -> SymbolInformation
      [] t.name = "CodeAction" -> CodeAction
      [] t.name = "CodeActionOptions" -> CodeActionOptions
      [] t.name = "RenameOptions" -> RenameOptions
      [] t.name = "RangeWithPlaceholder" -> RangeWithPlaceholder
      [] t.name = "FoldingProviderOptions" -> FoldingProviderOptions
      [] t.name = "SelectionRangeOptions" -> SelectionRangeOptions
      [] t.name = "SelectionRangeRegistrationOptions" ->
            SelectionRangeRegistrationOptions

(* -------------------- Enums without a tag in JSON --------------------- *)
(* #[serde(untagged)]: each table lists the variants in declared order     *)
(* with the type of their payload.                                         *)

NumberOrString == << <<"Number", TU64>>, <<"String", TString>> >>

CompletionTextEdit ==
    << <<"Edit", Struct("TextEdit")>>,
       <<"InsertAndReplace", Struct("InsertReplaceEdit")>> >>

DocumentChanges ==
    << <<"Edits", Vec(Struct("TextDocumentEdit"))>>,
       <<"Operations", Vec(Untagged("DocumentChangeOperation"))>> >>

DocumentChangeOperation ==
    << <<"Op", Tagged("ResourceOp")>>, <<"Edit", Struct("TextDocumentEdit")>> >>

ImplementationProviderCapability ==
    << <<"Simple", TBool>>,
       <<"Options", Struct("StaticTextDocumentRegistrationOptions")>> >>

TypeDefinitionProviderCapability ==
    << <<"Simple", TBool>>,
       <<"Options", Struct("StaticTextDocumentRegistrationOptions")>> >>

HoverProviderCapability ==
    << <<"Simple", TBool>>, <<"Options", Struct("HoverOptions")>> >>

ColorProviderCapability ==
    << <<"Simple", TBool>>,
       <<"ColorProvider", Struct("ColorProviderOptions")>>,
       <<"Options", Struct("StaticTextDocumentColorProviderOptions")>> >>

CodeActionProviderCapability ==
    << <<"Simple", TBool>>, <<"Options", Struct("CodeActionOptions")>> >>

HoverContents ==
    << <<"Scalar", Untagged("MarkedString")>>,
       <<"Array", Vec(Untagged("MarkedString"))>>,
       <<"Markup", Struct("MarkupContent")>> >>

MarkedString ==
    << <<"String", TString>>, <<"LanguageString", Struct("LanguageString")>> >>

ParameterLabel == << <<"Simple", TString>>, <<"LabelOffsets", TPair>> >>

GotoDefinitionResponse ==
    << <<"Scalar", Struct("Location")>>,
       <<"Array", Vec(Struct("Location"))>>,
       <<"Link", Vec(Struct("LocationLink"))>> >>

DocumentSymbolResponse ==
    << <<"Flat", Vec(Struct("SymbolInformation"))>>,
       <<"Nested", Vec(Struct("DocumentSymbol"))>> >>

CodeActionOrCommand ==
    << <<"Command", Struct("Command")>>, <<"CodeAction", Struct("CodeAction")>> >>

RenameProviderCapability ==
    << <<"Simple", TBool>>, <<"Options", Struct("RenameOptions")>> >>

PrepareRenameResponse ==
    << <<"Range", Struct("Range")>>,
       <<"RangeWithPlaceholder", Struct("RangeWithPlaceholder")>> >>

FoldingRangeProviderCapability ==
    << <<"Simple", TBool>>,
       <<"FoldingProvider", Struct("FoldingProviderOptions")>>,
       <<"Options", Struct("StaticTextDocumentColorProviderOptions")>> >>

SelectionRangeProviderCapability ==
    << <<"Simple", TBool>>,
       <<"Options", Struct("SelectionRangeOptions")>>,
       <<"RegistrationOptions", Struct("SelectionRangeRegistrationOptions")>> >>

FormattingProperty ==
    << <<"Bool", TBool>>, <<"Number", TF64>>, <<"String", TString>> >>

UntaggedEnums ==
    { "NumberOrString", "FormattingProperty", "CompletionTextEdit", "DocumentChanges",
      "DocumentChangeOperation", "ImplementationProviderCapability",
      "TypeDefinitionProviderCapability", "HoverProviderCapability",
      "ColorProviderCapability", "CodeActionProviderCapability",
      "HoverContents", "MarkedString", "ParameterLabel",
      "GotoDefinitionResponse", "DocumentSymbolResponse",
      "CodeActionOrCommand", "RenameProviderCapability",
      "PrepareRenameResponse", "FoldingRangeProviderCapability",
      "SelectionRangeProviderCapability" }

UntaggedVariants(name) ==
    CASE name = "NumberOrString" -> NumberOrString
      [] name = "FormattingProperty" -> FormattingProperty
      [] name = "CompletionTextEdit" -> CompletionTextEdit
      [] name = "DocumentChanges" -> DocumentChanges
      [] name = "DocumentChangeOperation" -> DocumentChangeOperation
      [] name = "ImplementationProviderCapability" -> ImplementationProviderCapability
      [] name = "TypeDefinitionProviderCapability" -> TypeDefinitionProviderCapability
      [] name = "HoverProviderCapability" -> HoverProviderCapability
      [] name = "ColorProviderCapability" -> ColorProviderCapability
      [] name = "CodeActionProviderCapability" -> CodeActionProviderCapability
      [] name = "HoverContents" -> HoverContents
      [] name = "MarkedString" -> MarkedString
      [] name = "ParameterLabel" -> ParameterLabel
      [] name = "GotoDefinitionResponse" -> GotoDefinitionResponse
      [] name = "DocumentSymbolResponse" -> DocumentSymbolResponse
      [] name = "CodeActionOrCommand" -> CodeActionOrCommand
      [] name = "RenameProviderCapability" -> RenameProviderCapability
      [] name = "PrepareRenameResponse" -> PrepareRenameResponse
      [] name = "FoldingRangeProviderCapability" -> FoldingRangeProviderCapability
      [] name = "SelectionRangeProviderCapability" -> SelectionRangeProviderCapability

\* The position of a variant in its enum's declaration.
VariantIndex(name, variant) ==
    LET t == UntaggedVariants(name)
    IN  CHOOSE i \in DOMAIN t : t[i][1] = variant

\* #[serde(tag = "kind", rename_all = "lowercase")]: the variant, the value
\* of the "kind" key, and the struct the other keys make up.
ResourceOp ==
    << <<"Create", "create", Struct("CreateFile")>>,
       <<"Rename", "rename", Struct("RenameFile")>>,
       <<"Delete", "delete", Struct("DeleteFile")>> >>

\* #[serde(rename_all = "lowercase")]: the variant and the string it is
\* written as.
MarkupKind == << <<"PlainText", "plaintext">>, <<"Markdown", "markdown">> >>

(* ------------------ Semantic highlighting tokens ---------------------- *)
(* The text of a JSON string that is decoded character by character is     *)
(* kept as the sequence of its characters: [text |-> <<"A", "Q", "=">>].   *)

JText(c) == [text |-> c]

IsText(j) == "text" \in DOMAIN j

\* The alphabet of base64::STANDARD; the character at position i + 1 stands
\* for the six bits of value i.
Alphabet ==
    << "A", "B", "C", "D", "E", "F", "G", "H", "I", "J", "K", "L", "M",
       "N", "O", "P", "Q", "R", "S", "T", "U", "V", "W", "X", "Y", "Z",
       "a", "b", "c", "d", "e", "f", "g", "h", "i", "j", "k", "l", "m",
       "n", "o", "p", "q", "r", "s", "t", "u", "v", "w", "x", "y", "z",
       "0", "1", "2", "3", "4", "5", "6", "7", "8", "9", "+", "/" >>

Pad == "="

Sextet(c) == (CHOOSE i \in DOMAIN Alphabet : Alphabet[i] = c) - 1

\* 2^n
Pow2(n) == IF n = 0 THEN 1 ELSE IF n = 2 THEN 4 ELSE IF n = 4 THEN 16
           ELSE IF n = 6 THEN 64 ELSE IF n = 8 THEN 256 ELSE IF n = 10 THEN 1024
           ELSE IF n = 16 THEN 65536 ELSE 16777216

\* The number of Pad characters a text ends with.
Padding(c) ==
    LET n == Len(c)
    IN  IF \A i \in 1..n : c[i] = Pad THEN n
        ELSE n - (CHOOSE i \in 1..n : c[i] # Pad /\ \A h \in (i + 1)..n : c[h] = Pad)

\* base64::decode_config(s, base64::STANDARD): the bytes a text stands for.
\* An error: a character outside the alphabet (a Pad before the end
\* included), a length that leaves a lone character, more Pads than the
\* last group has room for, bits set in the last character beyond the last
\* whole byte.
Base64Decode(c) ==
    LET p == Padding(c)
        body == SubSeq(c, 1, Len(c) - p)
        m == Len(body) % 4
        s == [i \in DOMAIN body |-> Sextet(body[i])]
        n == (Len(body) * 6) \div 8
        byte(h) == LET q == (8 * h) \div 6 + 1
                       r == (8 * h) % 6
                   IN  ((s[q] * 64 + s[q + 1]) \div Pow2(4 - r)) % 256
    IN  IF \E i \in DOMAIN body : \A a \in DOMAIN Alphabet : Alphabet[a] # body[i]
        THEN Err("custom", JText(c), "Error parsing base64 string", {})
        ELSE IF m = 1 \/ p > ((4 - m) % 4)
        THEN Err("custom", JText(c), "Error parsing base64 string", {})
        ELSE IF (m = 2 /\ s[Len(s)] % 16 # 0) \/ (m = 3 /\ s[Len(s)] % 4 # 0)
        THEN Err("custom", JText(c), "Error parsing base64 string", {})
        ELSE Ok([h \in 1..n |-> byte(h - 1)])

\* base64::display::Base64Display::with_config(&bytes, base64::STANDARD):
\* six bits a character, the last group filled up with Pad.
Base64Encode(b) ==
    LET n == (Len(b) * 8 + 5) \div 6
        at(i) == IF i <= Len(b) THEN b[i] ELSE 0
        char(h) == LET q == (6 * h) \div 8 + 1
                       r == (6 * h) % 8
                   IN  Alphabet[(((at(q) * 256 + at(q + 1)) \div Pow2(10 - r)) % 64) + 1]
    IN  [h \in 1..(n + ((4 - (n % 4)) % 4)) |-> IF h <= n THEN char(h - 1) ELSE Pad]

\* The characters of a JSON string.
Chars(j) ==
    IF IsText(j) THEN j.text
    ELSE CASE j.str = "a" -> <<"a">>
           [] j.str = "x" -> <<"x">>
           [] j.str = "markdown" -> <<"m", "a", "r", "k", "d", "o", "w", "n">>

\* The bytes of the three fields, the least significant byte first.
TokenBytesLittleEndian(t) ==
    << t.character % 256, (t.character \div Pow2(8)) % 256,
       (t.character \div Pow2(16)) % 256, (t.character \div Pow2(24)) % 256,
       t.length % 256, (t.length \div Pow2(8)) % 256,
       t.scope % 256, (t.scope \div Pow2(8)) % 256 >>

\* character.to_be_bytes(), length.to_be_bytes(), scope.to_be_bytes()
TokenBytes(t) ==
    << (t.character \div Pow2(24)) % 256, (t.character \div Pow2(16)) % 256,
       (t.character \div Pow2(8)) % 256, t.character % 256,
       (t.length \div Pow2(8)) % 256, t.length % 256,
       (t.scope \div Pow2(8)) % 256, t.scope % 256 >>

\* u32::from_be_bytes(chunk[0..4]), u16::from_be_bytes(chunk[4..6]),
\* u16::from_be_bytes(chunk[6..8])
ChunkToken(chunk) ==
    [character |-> chunk[1] * Pow2(24) + chunk[2] * Pow2(16) + chunk[3] * Pow2(8) + chunk[4],
     length |-> chunk[5] * Pow2(8) + chunk[6],
     scope |-> chunk[7] * Pow2(8) + chunk[8]]

\* &chunk[from..to]: the bytes from+1..to of the chunk, and a panic (None)
\* when the chunk ends before `to`.
Slice(chunk, from, to) ==
    IF to <= Len(chunk) THEN Some(SubSeq(chunk, from + 1, to)) ELSE None

\* <[u8; n]>::try_from(slice): the array of a slice of exactly n bytes.
TryFrom(slice, n) == IF Len(slice) = n THEN Some(slice) ELSE None

\* The three conversions made from a chunk: the slice taken and the length
\* of the array asked for.
Conversions(chunk) ==
    << [slice |-> Slice(chunk, 0, 4), n |-> 4],
       [slice |-> Slice(chunk, 4, 6), n |-> 2],
       [slice |-> Slice(chunk, 6, 8), n |-> 2] >>

\* A slice out of range or an unwrap of a failed try_from.
Panics(chunk) ==
    \E i \in DOMAIN Conversions(chunk) :
        LET c == Conversions(chunk)[i]
        IN  IsNone(c.slice) \/ IsNone(TryFrom(c.slice[1], c.n))

\* bytes.chunks(8): chunks of eight bytes, the bytes left over being a last
\* and shorter chunk.
Chunks8(bytes) ==
    [i \in 1..((Len(bytes) + 7) \div 8) |->
        SubSeq(bytes, 8 * i - 7, IF 8 * i <= Len(bytes) THEN 8 * i ELSE Len(bytes))]

\* bytes.chunks_exact(8): the whole chunks of eight bytes; the bytes left
\* over after the last whole chunk are in no chunk.
ChunksExact8(bytes) ==
    [i \in 1..(Len(bytes) \div 8) |-> SubSeq(bytes, 8 * i - 7, 8 * i)]

\* A decode of the tokens that tells no empty list from no list: a string
\* that holds no token is read as None.
DeserializeTokensEmptyAsNone(j) ==
    IF IsNull(j) THEN Ok(None)
    ELSE IF ~(IsStr(j) \/ IsText(j)) THEN Err("invalid_type", j, "string", {})
    ELSE LET bytes == Base64Decode(Chars(j))
         IN  IF IsErr(bytes) THEN bytes
             ELSE LET chunks == ChunksExact8(bytes.ok)
                  IN  IF Len(chunks) = 0 THEN Ok(None)
                      ELSE Ok(Some([i \in DOMAIN chunks |-> ChunkToken(chunks[i])]))

\* SemanticHighlightingToken::deserialize_tokens: the value is read as
\* Option<String>; a string is decoded from base64 and every whole chunk of
\* eight bytes gives a token. A panic in a conversion unwinds through the
\* callers; it is the outcome of kind "panic".
DeserializeTokens(j) ==
    IF IsNull(j) THEN Ok(None)
    ELSE IF ~(IsStr(j) \/ IsText(j)) THEN Err("invalid_type", j, "string", {})
    ELSE LET bytes == Base64Decode(Chars(j))
         IN  IF IsErr(bytes) THEN bytes
             ELSE LET chunks == ChunksExact8(bytes.ok)
                  IN  IF \E i \in DOMAIN chunks : Panics(chunks[i])
                      THEN Err("panic", j, "unwrap on an Err value", {})
                      ELSE Ok(Some([i \in DOMAIN chunks |-> ChunkToken(chunks[i])]))

RECURSIVE Concat(_)
\* The elements of a sequence of sequences, one after the other.
Concat(ss) == IF Len(ss) = 0 THEN <<>> ELSE Head(ss) \o Concat(Tail(ss))

\* SemanticHighlightingToken::serialize_tokens: the bytes of every token,
\* one string in base64; None is serialize_none.
SerializeTokens(tokens) ==
    IF Len(tokens) = 0 THEN JNull
    ELSE JText(Base64Encode(Concat([i \in DOMAIN tokens[1] |-> TokenBytes(tokens[1][i])])))

(* -------------------------- Semantic tokens --------------------------- *)

\* <u32 as Deserialize>::deserialize; every integer of the model is below
\* 2^32, so a negative number is the only invalid value.
DeserializeU32(j) ==
    IF ~IsNum(j) THEN Err("invalid_type", j, "u32", {})
    ELSE IF j.num < 0 THEN Err("invalid_value", j, "u32", {})
    ELSE Ok(j.num)

\* Vec::<u32>::deserialize
DeserializeVecU32(j) ==
    IF ~IsArr(j) THEN Err("invalid_type", j, "sequence", {})
    ELSE LET rs == [i \in DOMAIN j.arr |-> DeserializeU32(j.arr[i])]
         IN  IF \E i \in DOMAIN rs : IsErr(rs[i])
             THEN rs[CHOOSE i \in DOMAIN rs : IsErr(rs[i]) /\ \A h \in 1..(i - 1) : IsOk(rs[h])]
             ELSE Ok([i \in DOMAIN rs |-> rs[i].ok])

\* The SemanticToken of a chunk of five integers.
SemanticTokenOf(chunk) ==
    [delta_line |-> chunk[1], delta_start |-> chunk[2], length |-> chunk[3],
     token_type |-> chunk[4], token_modifiers_bitset |-> chunk[5]]

\* A decode that takes the whole chunks of five and leaves the rest.
DeserializeSemanticTokensWholeChunks(j) ==
    LET data == DeserializeVecU32(j)
    IN  IF IsErr(data) THEN data
        ELSE Ok([i \in 1..(Len(data.ok) \div 5) |->
                    SemanticTokenOf(SubSeq(data.ok, 5 * i - 4, 5 * i))])

\* SemanticToken::deserialize_tokens: a Vec<u32> cut by chunks_exact(5); a
\* remainder that is not empty is the error "Length is not divisible by 5".
DeserializeSemanticTokens(j) ==
    LET data == DeserializeVecU32(j)
    IN  IF IsErr(data) THEN data
        ELSE IF Len(data.ok) % 5 # 0
        THEN Err("custom", j, "Length is not divisible by 5", {})
        ELSE Ok([i \in 1..(Len(data.ok) \div 5) |->
                    SemanticTokenOf(SubSeq(data.ok, 5 * i - 4, 5 * i))])

\* An encoding with one array a token inside the array.
SerializeSemanticTokensNested(tokens) ==
    JArr([i \in DOMAIN tokens |->
            JArr(<< JNum(tokens[i].delta_line), JNum(tokens[i].delta_start),
                    JNum(tokens[i].length), JNum(tokens[i].token_type),
                    JNum(tokens[i].token_modifiers_bitset) >>)])

\* SemanticToken::serialize_tokens: one sequence of tokens.len() * 5
\* elements, the five fields of each token in declared order.
SerializeSemanticTokens(tokens) ==
    JArr([h \in 1..(5 * Len(tokens)) |->
            LET t == tokens[(h - 1) \div 5 + 1]
                o == (h - 1) % 5
            IN  CASE o = 0 -> JNum(t.delta_line)
                  [] o = 1 -> JNum(t.delta_start)
                  [] o = 2 -> JNum(t.length)
                  [] o = 3 -> JNum(t.token_type)
                  [] o = 4 -> JNum(t.token_modifiers_bitset)])

\* SemanticToken::deserialize_tokens_opt: Option<Wrapper>, the transparent
\* Wrapper being read by deserialize_tokens.
DeserializeSemanticTokensOpt(j) ==
    IF IsNull(j) THEN Ok(None)
    ELSE LET r == DeserializeSemanticTokens(j)
         IN  IF IsErr(r) THEN r ELSE Ok(Some(r.ok))

\* SemanticToken::serialize_tokens_opt
SerializeSemanticTokensOpt(data) ==
    IF IsNone(data) THEN JNull ELSE SerializeSemanticTokens(data[1])

(* ------------------------------ Codec --------------------------------- *)

RECURSIVE Serialize(_, _)
RECURSIVE SerializeFields(_, _)
RECURSIVE Deserialize(_, _)
RECURSIVE DeserializeFields(_, _)
RECURSIVE DeserializeElements(_, _, _)
RECURSIVE FirstMatch(_, _, _)

\* The texts that are absolute URLs, each with the serialization Url::parse
\* normalizes it to: a file URL with a host and no path gets the path "/".
UrlTexts ==
    << <<"file:///a", "file:///a">>, <<"file:///b", "file:///b">>,
       <<"file://test", "file://test/">>, <<"file://test/", "file://test/">> >>

\* A Url is held as its serialization, the string as_str() returns.
Urls == { UrlTexts[i][2] : i \in DOMAIN UrlTexts }

\* Url::parse on a JSON string: a string that is no absolute URL is an error.
UrlParse(j) ==
    IF IsStr(j) /\ \E i \in DOMAIN UrlTexts : UrlTexts[i][1] = j.str
    THEN Ok(UrlTexts[CHOOSE i \in DOMAIN UrlTexts : UrlTexts[i][1] = j.str][2])
    ELSE Err("invalid_value", j, "url", {})

\* url_map::serialize: None as null, Some(map) as an object keyed by
\* k.as_str().
UrlMapSerialize(changes) ==
    IF IsNone(changes) THEN JNull
    ELSE LET m == changes[1]
         IN  JObj([u \in DOMAIN m |-> Serialize(Vec(Struct("TextEdit")), m[u])])

\* A url_map decode that takes an object with no entry for no map at all.
UrlMapDeserializeEmptyAsNone(j) ==
    IF IsNull(j) \/ j = JObj(EmptyMap) THEN Ok(None)
    ELSE IF ~IsObj(j) THEN Err("invalid_type", j, "map", {})
    ELSE LET o == j.obj
             ks == [u \in DOMAIN o |-> UrlParse(JStr(u))]
             vs == [u \in DOMAIN o |-> Deserialize(Vec(Struct("TextEdit")), o[u])]
         IN  IF \E u \in DOMAIN o : IsErr(ks[u]) \/ IsErr(vs[u])
             THEN Err("invalid_value", j, "map", {})
             ELSE Ok(Some([n \in { ks[u].ok : u \in DOMAIN o } |->
                             vs[CHOOSE u \in DOMAIN o : ks[u].ok = n].ok]))

\* url_map::deserialize: deserialize_option, then deserialize_map with every
\* key read as a Url and every value as Vec<TextEdit>, inserted under the
\* Url its key parses to. The inputs hold one text a Url at most.
UrlMapDeserialize(j) ==
    IF IsNull(j) THEN Ok(None)
    ELSE IF ~IsObj(j) THEN Err("invalid_type", j, "map", {})
    ELSE LET o == j.obj
             ks == [u \in DOMAIN o |-> UrlParse(JStr(u))]
             vs == [u \in DOMAIN o |-> Deserialize(Vec(Struct("TextEdit")), o[u])]
         IN  IF \E u \in DOMAIN o : IsErr(ks[u])
             THEN ks[CHOOSE u \in DOMAIN o : IsErr(ks[u])]
             ELSE IF \E u \in DOMAIN o : IsErr(vs[u])
             THEN vs[CHOOSE u \in DOMAIN o : IsErr(vs[u])]
             ELSE Ok(Some([n \in { ks[u].ok : u \in DOMAIN o } |->
                             vs[CHOOSE u \in DOMAIN o : ks[u].ok = n].ok]))

\* What a field writes: its value through the field's `with` function, or
\* through the Serialize impl of its type.
SerializeField(f, x) ==
    CASE f.with = "url_map" -> UrlMapSerialize(x)
      [] f.with = "SemanticHighlightingToken" -> SerializeTokens(x)
      [] f.with = "SemanticToken::tokens" -> SerializeSemanticTokens(x)
      [] f.with = "SemanticToken::tokens_opt" -> SerializeSemanticTokensOpt(x)
      [] OTHER -> Serialize(f.ty, x)

\* The derived Serialize of a struct: the entries of the JSON object. A
\* flattened field writes the entries of its own struct; a field with
\* skip_serializing_if = "Option::is_none" writes nothing when it is None;
\* any other field writes its key, a None as null.
SerializeFields(fields, v) ==
    IF Len(fields) = 0 THEN EmptyMap
    ELSE LET f == Head(fields)
             rest == SerializeFields(Tail(fields), v)
         IN  IF f.flatten THEN Serialize(f.ty, v[f.field]).obj @@ rest
             ELSE IF f.skip /\ IsNone(v[f.field]) THEN rest
             ELSE (f.key :> SerializeField(f, v[f.field])) @@ rest

\* The externally tagged form serde gives an enum with no attribute: an
\* object with the variant's name as its only key.
SerializeExternallyTagged(name, v) ==
    LET variant == VariantOf(v)
    IN  JObj((variant :> Serialize(UntaggedVariants(name)[VariantIndex(name, variant)][2],
                                   v[variant])))

\* An untagged enum writes the payload of its variant and nothing else.
SerializeUntagged(name, v) ==
    LET variant == VariantOf(v)
    IN  Serialize(UntaggedVariants(name)[VariantIndex(name, variant)][2], v[variant])

\* ResourceOp writes the struct of its variant with the "kind" key added.
SerializeTagged(v) ==
    LET variant == VariantOf(v)
        row == ResourceOp[CHOOSE i \in DOMAIN ResourceOp : ResourceOp[i][1] = variant]
    IN  JObj(("kind" :> JStr(row[2])) @@ Serialize(row[3], v[variant]).obj)

\* The derived Serialize of TraceOption: the renamed string of the variant.
SerializeTraceOption(variant) ==
    JStr(TraceOption[CHOOSE i \in DOMAIN TraceOption :
                        TraceOption[i][1] = VariantOf(variant)][2])

SerializeLowercase(variant) ==
    JStr(MarkupKind[CHOOSE i \in DOMAIN MarkupKind :
                       MarkupKind[i][1] = VariantOf(variant)][2])

Serialize(t, v) ==
    CASE t.k = "bool" -> JBool(v)
      [] t.k \in {"u64", "i64", "i32", "u32", "f64"} -> JNum(v)
      [] t.k = "map" -> JObj([key \in DOMAIN v |-> Serialize(t.of, v[key])])
      [] t.k \in {"string", "url"} -> JStr(v)
      [] t.k = "value" -> v
      [] t.k = "pair" -> JArr(<<JNum(v[1]), JNum(v[2])>>)
      [] t.k = "vec" -> JArr([i \in DOMAIN v |-> Serialize(t.of, v[i])])
      [] t.k = "option" -> IF IsNone(v) THEN JNull ELSE Serialize(t.of, v[1])
      [] t.k = "repr" -> SerializeRepr(t.name, v)
      [] t.k = "bitflags" -> SerializeWatchKind(v)
      [] t.k = "lowercase" -> SerializeLowercase(v)
      [] t.k = "trace" -> SerializeTraceOption(v)
      [] t.k = "struct" -> JObj(SerializeFields(StructFields(t), v))
      [] t.k = "untagged" -> SerializeUntagged(t.name, v)
      [] t.k = "tagged" -> SerializeTagged(v)

\* deserialize_compat without the match on booleans: every value that is
\* not null goes to the derived Deserialize of TagSupport<T>.
DeserializeCompatStrict(t, j) ==
    IF IsNull(j) THEN Ok(None)
    ELSE LET r == Deserialize(t, j)
         IN  IF IsErr(r) THEN r ELSE Ok(Some(r.ok))

\* deserialize_compat taking every value that is no object or array as None.
DeserializeCompatLenient(t, j) ==
    IF IsBool(j) /\ j.bool THEN Ok(Some([value_set |-> <<>>]))
    ELSE IF ~(IsObj(j) \/ IsArr(j)) THEN Ok(None)
    ELSE LET r == Deserialize(t, j)
         IN  IF IsErr(r) THEN r ELSE Ok(Some(r.ok))

\* TagSupport::deserialize_compat: the value is read as Option<Value>; false
\* and None give None, true gives an empty value set, anything else is
\* handed to the derived Deserialize of TagSupport<T>.
DeserializeCompat(t, j) ==
    LET opt == IF IsNull(j) THEN None ELSE Some(j)
    IN  IF IsNone(opt) THEN Ok(None)
        ELSE IF IsBool(opt[1]) /\ opt[1].bool = FALSE THEN Ok(None)
        ELSE IF IsBool(opt[1]) /\ opt[1].bool = TRUE
             THEN Ok(Some([value_set |-> <<>>]))
        ELSE LET r == Deserialize(t, opt[1])
             IN  IF IsErr(r) THEN r ELSE Ok(Some(r.ok))

\* What a field reads from the value of its key.
DeserializeField(f, x) ==
    CASE f.with = "TagSupport::deserialize_compat" -> DeserializeCompat(f.ty.of, x)
      [] f.with = "url_map" -> UrlMapDeserialize(x)
      [] f.with = "SemanticHighlightingToken" -> DeserializeTokens(x)
      [] f.with = "SemanticToken::tokens" -> DeserializeSemanticTokens(x)
      [] f.with = "SemanticToken::tokens_opt" -> DeserializeSemanticTokensOpt(x)
      [] OTHER -> Deserialize(f.ty, x)

\* A struct decode that wants every key the encode always writes: a missing
\* key is None for a field with skip_serializing_if alone, and the error
\* `missing field` for any other.
DeserializeFieldsRequired(fields, j) ==
    IF Len(fields) = 0 THEN Ok(EmptyMap)
    ELSE LET f == Head(fields)
             r == IF f.flatten THEN Deserialize(f.ty, j)
                  ELSE IF f.key \in DOMAIN j.obj THEN DeserializeField(f, j.obj[f.key])
                  ELSE IF f.skip THEN Ok(None)
                  ELSE Err("missing_field", j, f.key, {})
             rest == DeserializeFields(Tail(fields), j)
         IN  IF IsErr(r) THEN r
             ELSE IF IsErr(rest) THEN rest
             ELSE Ok((f.field :> r.ok) @@ rest.ok)

\* A struct decode that recovers from a field that fails: an Option or
\* #[serde(default)] field whose value does not decode is left None.
DeserializeFieldsLenient(fields, j) ==
    IF Len(fields) = 0 THEN Ok(EmptyMap)
    ELSE LET f == Head(fields)
             r == IF f.flatten THEN Deserialize(f.ty, j)
                  ELSE IF f.key \in DOMAIN j.obj THEN DeserializeField(f, j.obj[f.key])
                  ELSE IF f.default \/ (f.ty.k = "option" /\ f.with = "") THEN Ok(None)
                  ELSE Err("missing_field", j, f.key, {})
             rest == DeserializeFields(Tail(fields), j)
         IN  IF IsErr(r) /\ ~f.flatten /\ (f.default \/ f.ty.k = "option")
             THEN IF IsErr(rest) THEN rest ELSE Ok((f.field :> None) @@ rest.ok)
             ELSE IF IsErr(r) THEN r
             ELSE IF IsErr(rest) THEN rest
             ELSE Ok((f.field :> r.ok) @@ rest.ok)

\* visit_map of a derived struct: every field from the value of its key;
\* keys that name no field are ignored; a flattened field reads the same
\* object; a missing key is None for a #[serde(default)] field or an Option
\* read without deserialize_with, and the error `missing field` for any
\* other.
DeserializeFields(fields, j) ==
    IF Len(fields) = 0 THEN Ok(EmptyMap)
    ELSE LET f == Head(fields)
             r == IF f.flatten THEN Deserialize(f.ty, j)
                  ELSE IF f.key \in DOMAIN j.obj THEN DeserializeField(f, j.obj[f.key])
                  ELSE IF f.default \/ (f.ty.k = "option" /\ f.with = "") THEN Ok(None)
                  ELSE Err("missing_field", j, f.key, {})
             rest == DeserializeFields(Tail(fields), j)
         IN  IF IsErr(r) THEN r
             ELSE IF IsErr(rest) THEN rest
             ELSE Ok((f.field :> r.ok) @@ rest.ok)

\* visit_seq of a derived struct: the fields in declared order from the
\* elements of an array; a missing element is an error unless the field is
\* #[serde(default)].
DeserializeElements(fields, a, j) ==
    IF Len(fields) = 0 THEN Ok(EmptyMap)
    ELSE LET f == Head(fields)
             r == IF Len(a) > 0 THEN DeserializeField(f, Head(a))
                  ELSE IF f.default THEN Ok(None)
                  ELSE Err("invalid_length", j, "struct", {})
             rest == DeserializeElements(Tail(fields), IF Len(a) > 0 THEN Tail(a) ELSE a, j)
         IN  IF IsErr(r) THEN r
             ELSE IF IsErr(rest) THEN rest
             ELSE Ok((f.field :> r.ok) @@ rest.ok)

\* The derived Deserialize of a struct: deserialize_struct takes an object
\* or, field by position, an array with no element left over; a struct with
\* a flattened field is read by deserialize_map and takes an object only.
DeserializeStruct(t, j) ==
    LET fields == StructFields(t)
        flat == \E i \in DOMAIN fields : fields[i].flatten
    IN  IF IsObj(j) THEN DeserializeFields(fields, j)
        ELSE IF IsArr(j) /\ ~flat
             THEN IF Len(j.arr) > Len(fields)
                  THEN Err("invalid_length", j, "struct", {})
                  ELSE DeserializeElements(fields, j.arr, j)
        ELSE Err("invalid_type", j, "struct", {})

\* A flattened HashMap<String, T>: the struct hands it every entry whose key
\* none of its own fields took, and each value is read as T.
DeserializeFlatMap(t, j) ==
    IF ~IsObj(j) THEN Err("invalid_type", j, "map", {})
    ELSE LET keys == DOMAIN j.obj \ t.named
             vs == [key \in keys |-> Deserialize(t.of, j.obj[key])]
         IN  IF \E key \in keys : IsErr(vs[key])
             THEN vs[CHOOSE key \in keys : IsErr(vs[key])]
             ELSE Ok([key \in keys |-> vs[key].ok])

\* The first variant, from position i on, whose type reads j.
FirstMatch(variants, i, j) ==
    IF i > Len(variants) THEN 0
    ELSE IF IsOk(Deserialize(variants[i][2], j)) THEN i
    ELSE FirstMatch(variants, i + 1, j)

\* An untagged decode that chooses the variant by the keys of the object:
\* the first struct variant whose required keys are all there, whatever the
\* values under them are.
DeserializeUntaggedByKeys(name, j) ==
    LET variants == UntaggedVariants(name)
        HasKeys(t) ==
            /\ t.k = "struct" /\ IsObj(j)
            /\ \A h \in DOMAIN StructFields(t) :
                  LET f == StructFields(t)[h]
                  IN  (~f.flatten /\ ~f.default /\ f.ty.k # "option")
                         => f.key \in DOMAIN j.obj
        chosen == { i \in DOMAIN variants :
                      HasKeys(variants[i][2]) \/ IsOk(Deserialize(variants[i][2], j)) }
    IN  IF chosen = {} THEN Err("no_variant", j, name, {})
        ELSE LET i == CHOOSE i \in chosen : \A h \in chosen : i <= h
                 r == Deserialize(variants[i][2], j)
             IN  IF IsErr(r) THEN r ELSE Ok((variants[i][1] :> r.ok))

\* An untagged decode that returns the last variant that reads the input.
DeserializeUntaggedLast(name, j) ==
    LET variants == UntaggedVariants(name)
        reads == { i \in DOMAIN variants : IsOk(Deserialize(variants[i][2], j)) }
    IN  IF reads = {} THEN Err("no_variant", j, name, {})
        ELSE LET i == CHOOSE i \in reads : \A h \in reads : h <= i
             IN  Ok((variants[i][1] :> Deserialize(variants[i][2], j).ok))

\* The derived Deserialize of an untagged enum: the input is buffered and
\* each variant tried in declared order; the first that reads it wins, and
\* "data did not match any variant of untagged enum" is the error when none
\* does.
DeserializeUntagged(name, j) ==
    LET variants == UntaggedVariants(name)
        i == FirstMatch(variants, 1, j)
    IN  IF i = 0 THEN Err("no_variant", j, name, {})
        ELSE Ok((variants[i][1] :> Deserialize(variants[i][2], j).ok))

\* ResourceOp: the "kind" key chooses the variant, the rest is its struct.
DeserializeTagged(j) ==
    IF ~IsObj(j) THEN Err("invalid_type", j, "ResourceOp", {})
    ELSE IF "kind" \notin DOMAIN j.obj THEN Err("missing_field", j, "kind", {})
    ELSE IF \E i \in DOMAIN ResourceOp : j.obj["kind"] = JStr(ResourceOp[i][2])
         THEN LET row == ResourceOp[CHOOSE i \in DOMAIN ResourceOp :
                                       j.obj["kind"] = JStr(ResourceOp[i][2])]
                  r == Deserialize(row[3], j)
              IN  IF IsErr(r) THEN r ELSE Ok((row[1] :> r.ok))
         ELSE Err("unknown_variant", j, "ResourceOp", {})

\* The derived Deserialize of TraceOption: a string that is the renamed
\* name of a variant.
DeserializeTraceOption(j) ==
    IF \E i \in DOMAIN TraceOption : j = JStr(TraceOption[i][2])
    THEN Ok(Unit(TraceOption[CHOOSE i \in DOMAIN TraceOption :
                                j = JStr(TraceOption[i][2])][1]))
    ELSE Err("unknown_variant", j, "TraceOption", {})

DeserializeLowercase(j) ==
    IF \E i \in DOMAIN MarkupKind : j = JStr(MarkupKind[i][2])
    THEN Ok(Unit(MarkupKind[CHOOSE i \in DOMAIN MarkupKind :
                               j = JStr(MarkupKind[i][2])][1]))
    ELSE Err("unknown_variant", j, "MarkupKind", {})

\* Vec<T>: every element of an array, the first error failing the whole.
DeserializeVec(t, j) ==
    IF ~IsArr(j) THEN Err("invalid_type", j, "sequence", {})
    ELSE LET rs == [i \in DOMAIN j.arr |-> Deserialize(t, j.arr[i])]
         IN  IF \E i \in DOMAIN rs : IsErr(rs[i])
             THEN rs[CHOOSE i \in DOMAIN rs : IsErr(rs[i]) /\ \A h \in 1..(i - 1) : IsOk(rs[h])]
             ELSE Ok([i \in DOMAIN rs |-> rs[i].ok])

Deserialize(t, j) ==
    CASE t.k = "bool" -> IF IsBool(j) THEN Ok(j.bool) ELSE Err("invalid_type", j, "bool", {})
      [] t.k = "u64" ->
            IF ~IsNum(j) THEN Err("invalid_type", j, "u64", {})
            ELSE IF j.num < 0 THEN Err("invalid_value", j, "u64", {})
            ELSE Ok(j.num)
      [] t.k = "i64" -> IF IsNum(j) THEN Ok(j.num) ELSE Err("invalid_type", j, "i64", {})
      [] t.k = "u32" -> DeserializeU32(j)
      [] t.k = "f64" -> IF IsNum(j) THEN Ok(j.num) ELSE Err("invalid_type", j, "f64", {})
      [] t.k = "map" -> DeserializeFlatMap(t, j)
      [] t.k = "i32" -> IF IsNum(j) THEN Ok(j.num) ELSE Err("invalid_type", j, "i32", {})
      [] t.k = "string" ->
            IF IsStr(j) THEN Ok(j.str) ELSE Err("invalid_type", j, "string", {})
      [] t.k = "url" ->
            IF IsStr(j) THEN UrlParse(j) ELSE Err("invalid_type", j, "string", {})
      [] t.k = "value" -> Ok(j)
      [] t.k = "pair" ->
            IF IsArr(j) /\ Len(j.arr) = 2
               /\ \A i \in 1..2 : IsNum(j.arr[i]) /\ j.arr[i].num >= 0
            THEN Ok(<<j.arr[1].num, j.arr[2].num>>)
            ELSE Err("invalid_type", j, "an array of length 2", {})
      [] t.k = "vec" -> DeserializeVec(t.of, j)
      [] t.k = "option" ->
            IF IsNull(j) THEN Ok(None)
            ELSE LET r == Deserialize(t.of, j)
                 IN  IF IsErr(r) THEN r ELSE Ok(Some(r.ok))
      [] t.k = "repr" -> DeserializeRepr(t.name, j)
      [] t.k = "bitflags" -> DeserializeWatchKind(j)
      [] t.k = "lowercase" -> DeserializeLowercase(j)
      [] t.k = "trace" -> DeserializeTraceOption(j)
      [] t.k = "struct" -> DeserializeStruct(t, j)
      [] t.k = "untagged" -> DeserializeUntagged(t.name, j)
      [] t.k = "tagged" -> DeserializeTagged(j)

(* ----------------------------- Inputs --------------------------------- *)

\* The longest list among the sample values.
MaxLen == 2

\* Enum decoding is tried on every integer from -1 to MaxInt, and on the
\* integers at and beyond the edge of u8.
MaxInt == 30

IntInputs == (-1 .. MaxInt) \cup {99, 254, 255, 256, 257, 259, 300}

\* The sequences over S of length at most n.
SeqsUpTo(S, n) == UNION { [1..m -> S] : m \in 0..n }

Optional(S) == { None } \cup { Some(x) : x \in S }

Strings == { "a", "b" }

Positions == { [line |-> 0, character |-> 0], [line |-> 1, character |-> 2] }

Ranges == { [start |-> p, end |-> q] : p \in Positions, q \in Positions }

RangeA == [start |-> [line |-> 0, character |-> 0], end |-> [line |-> 1, character |-> 2]]

Locations == { [uri |-> u, range |-> RangeA] : u \in Urls }

LocationLinks ==
    { [origin_selection_range |-> o, target_uri |-> "file:///a",
       target_range |-> RangeA, target_selection_range |-> RangeA] :
      o \in Optional({RangeA}) }

TextEdits == { [range |-> RangeA, new_text |-> s] : s \in Strings }

TextDocumentEdits ==
    { [text_document |-> [uri |-> "file:///a", version |-> ver], edits |-> e] :
      ver \in Optional({1}), e \in SeqsUpTo({[range |-> RangeA, new_text |-> "a"]}, 1) }

ResourceOps ==
    { [Create |-> [uri |-> "file:///a", options |-> o]] :
        o \in Optional({[overwrite |-> Some(TRUE), ignore_if_exists |-> None]}) }
    \cup { [Rename |-> [old_uri |-> "file:///a", new_uri |-> "file:///b", options |-> None]],
           [Delete |-> [uri |-> "file:///a",
                        options |-> Some([recursive |-> None, ignore_if_not_exists |-> None])]] }

DocumentFilters ==
    { [language |-> l, scheme |-> None, pattern |-> None] : l \in Optional({"a"}) }

RegistrationOptionsSamples ==
    { [document_selector |-> d, id |-> i] :
      d \in Optional(SeqsUpTo(DocumentFilters, 1)), i \in Optional({"a"}) }

WorkDoneSamples == { [work_done_progress |-> w] : w \in Optional(BOOLEAN) }

Diagnostics ==
    { [range |-> RangeA, severity |-> sev, code |-> c, source |-> None,
       message |-> "a", related_information |-> None, tags |-> t] :
      sev \in Optional({Unit("Error"), Unit("Hint")}),
      c \in Optional({[Number |-> 1], [String |-> "a"]}),
      t \in Optional(SeqsUpTo({Unit("Unnecessary")}, 1)) }

Commands ==
    { [title |-> "a", command |-> "b", arguments |-> a] :
      a \in Optional(SeqsUpTo({JNum(1)}, 1)) }

WorkspaceEdits ==
    { [changes |-> c, document_changes |-> None] :
      c \in Optional({ EmptyMap, [u \in {"file:///a"} |-> <<>>],
                       [u \in {"file://test/"} |-> <<>>],
                       [u \in {"file:///a", "file:///b"} |->
                          IF u = "file:///a" THEN <<>>
                          ELSE << [range |-> RangeA, new_text |-> "a"] >>] }) }

\* Diagnostic objects with a range and a message, and one more key whose
\* value its field may not read.
DiagnosticInputs ==
    { JObj([key \in {"range", "message", k} |->
               IF key = "range" THEN Serialize(Struct("Range"), RangeA)
               ELSE IF key = "message" THEN JStr("a") ELSE x]) :
      k \in {"severity", "code", "tags", "source", "zzz"},
      x \in { JNum(1), JNum(5), JNum(0), JStr("a"), JBool(TRUE), JNull, JArr(<<>>),
              JArr(<<JNum(1)>>), JArr(<<JNum(1), JNum(9)>>) } }

\* The values of the changes key; no object holds two texts of one Url.
ChangesInputs ==
    { JNull, JArr(<<>>), JStr("a"), JObj(EmptyMap),
      JObj([u \in {"file://test"} |-> JArr(<<>>)]),
      JObj([u \in {"a"} |-> JArr(<<>>)]),
      JObj([u \in {"file:///a"} |-> JNum(1)]),
      JObj([u \in {"file:///a", "file://test"} |-> JArr(<<>>)]) }

CodeActions ==
    { [title |-> "a", kind |-> k, diagnostics |-> d, edit |-> e, command |-> c,
       is_preferred |-> None] :
      k \in Optional({"quickfix"}), d \in Optional({<<>>}),
      e \in Optional({[changes |-> None, document_changes |-> None]}),
      c \in Optional({[title |-> "a", command |-> "b", arguments |-> None]}) }

MarkedStrings ==
    { [String |-> s] : s \in Strings }
    \cup { [LanguageString |-> [language |-> "a", value |-> s]] : s \in Strings }

SymbolInformations ==
    { [name |-> "a", kind |-> k, tags |-> None, deprecated |-> None,
       location |-> [uri |-> "file:///a", range |-> RangeA], container_name |-> c] :
      k \in {Unit("File"), Unit("Unknown")}, c \in Optional({"b"}) }

DocumentSymbols ==
    { [name |-> "a", detail |-> None, kind |-> Unit("Class"), tags |-> t, deprecated |-> None,
       range |-> RangeA, selection_range |-> RangeA, children |-> c] :
      t \in Optional({<<Unit("Deprecated")>>}), c \in Optional({<<>>}) }

\* The sample values of an untagged enum: every variant, with empty lists
\* and with structs whose optional fields are all absent among them.
FormattingProperties == { [Bool |-> TRUE], [Number |-> 1], [String |-> "a"] }

UntaggedSamples(name) ==
    CASE name = "NumberOrString" ->
            { [Number |-> n] : n \in 0..MaxLen } \cup { [String |-> x] : x \in Strings }
      [] name = "FormattingProperty" -> FormattingProperties
      [] name = "CompletionTextEdit" ->
            { [Edit |-> e] : e \in TextEdits }
            \cup { [InsertAndReplace |-> [new_text |-> x, insert |-> RangeA, replace |-> r]] :
                   x \in Strings, r \in Ranges }
      [] name = "DocumentChanges" ->
            { [Edits |-> e] : e \in SeqsUpTo(TextDocumentEdits, 1) }
            \cup { [Operations |-> o] :
                   o \in SeqsUpTo({ [Op |-> r] : r \in ResourceOps }
                                  \cup { [Edit |-> e] : e \in TextDocumentEdits }, 1) }
      [] name = "DocumentChangeOperation" ->
            { [Op |-> r] : r \in ResourceOps } \cup { [Edit |-> e] : e \in TextDocumentEdits }
      [] name \in {"ImplementationProviderCapability", "TypeDefinitionProviderCapability"} ->
            { [Simple |-> b] : b \in BOOLEAN }
            \cup { [Options |-> o] : o \in RegistrationOptionsSamples }
      [] name \in {"HoverProviderCapability"} ->
            { [Simple |-> b] : b \in BOOLEAN }
            \cup { [Options |-> [work_done_progress_options |-> w]] : w \in WorkDoneSamples }
      [] name = "ColorProviderCapability" ->
            { [Simple |-> b] : b \in BOOLEAN }
            \cup { [ColorProvider |-> EmptyMap] }
            \cup { [Options |-> o] : o \in RegistrationOptionsSamples }
      [] name = "CodeActionProviderCapability" ->
            { [Simple |-> b] : b \in BOOLEAN }
            \cup { [Options |-> [code_action_kinds |-> c, work_done_progress_options |-> w]] :
                   c \in Optional(SeqsUpTo({"quickfix"}, 1)), w \in WorkDoneSamples }
      [] name = "HoverContents" ->
            { [Scalar |-> m] : m \in MarkedStrings }
            \cup { [Array |-> a] : a \in SeqsUpTo({[String |-> "a"],
                                     [LanguageString |-> [language |-> "a", value |-> "b"]]}, MaxLen) }
            \cup { [Markup |-> [kind |-> c, value |-> x]] :
                   c \in {Unit("PlainText"), Unit("Markdown")}, x \in Strings }
      [] name = "MarkedString" -> MarkedStrings
      [] name = "ParameterLabel" ->
            { [Simple |-> x] : x \in Strings }
            \cup { [LabelOffsets |-> <<a, b>>] : a \in 0..MaxLen, b \in 0..MaxLen }
      [] name = "GotoDefinitionResponse" ->
            { [Scalar |-> l] : l \in Locations }
            \cup { [Array |-> a] : a \in SeqsUpTo(Locations, MaxLen) }
            \cup { [Link |-> a] : a \in SeqsUpTo(LocationLinks, MaxLen) }
      [] name = "DocumentSymbolResponse" ->
            { [Flat |-> a] : a \in SeqsUpTo(SymbolInformations, 1) }
            \cup { [Nested |-> a] : a \in SeqsUpTo(DocumentSymbols, 1) }
      [] name = "CodeActionOrCommand" ->
            { [Command |-> c] : c \in Commands } \cup { [CodeAction |-> c] : c \in CodeActions }
      [] name = "RenameProviderCapability" ->
            { [Simple |-> b] : b \in BOOLEAN }
            \cup { [Options |-> [prepare_provider |-> p, work_done_progress_options |-> w]] :
                   p \in Optional(BOOLEAN), w \in WorkDoneSamples }
      [] name = "PrepareRenameResponse" ->
            { [Range |-> r] : r \in Ranges }
            \cup { [RangeWithPlaceholder |-> [range |-> r, placeholder |-> x]] :
                   r \in Ranges, x \in Strings }
      [] name = "FoldingRangeProviderCapability" ->
            { [Simple |-> b] : b \in BOOLEAN }
            \cup { [FoldingProvider |-> EmptyMap] }
            \cup { [Options |-> o] : o \in RegistrationOptionsSamples }
      [] name = "SelectionRangeProviderCapability" ->
            { [Simple |-> b] : b \in BOOLEAN }
            \cup { [Options |-> [work_done_progress_options |-> w]] : w \in WorkDoneSamples }
            \cup { [RegistrationOptions |->
                      [selection_range_options |-> [work_done_progress_options |-> w],
                       registration_options |-> o]] :
                   w \in WorkDoneSamples, o \in RegistrationOptionsSamples }

\* The tokens of tests::test_semantic_highlighting_information_serialization.
Tokens ==
    { [character |-> 1, length |-> 2, scope |-> 3],
      [character |-> 1122850, length |-> 4080, scope |-> 514] }

\* The most groups of four characters before the last group of a token text.
MaxGroups == 4

\* Groups of four characters: three bytes each.
Groups == { <<"A", "A", "A", "A">>, <<"A", "Q", "I", "D">> }

\* What a text ends with: nothing, a padded group of one byte or of two, a
\* group with bits set beyond its last byte, a character outside the
\* alphabet, a lone character, a Pad before the end. The first byte of a
\* chunk stays below 128, character within the integers of the model.
LastGroups ==
    { <<>>, <<"A", "A", "=", "=">>, <<"A", "Q", "I", "=">>, <<"A", "R", "=", "=">>,
      <<"!", "A", "A", "A">>, <<"A">>, <<"A", "Q", "=", "A">> }

TokenTexts == { Concat(g) \o l : g \in SeqsUpTo(Groups, MaxGroups), l \in LastGroups }

\* The values of the tokens key, and the objects holding them.
TokensInputs ==
    { JText(c) : c \in TokenTexts }
    \cup { JNull, JBool(TRUE), JNum(1), JStr("markdown"), JStr("a"), JArr(<<>>),
           JObj(EmptyMap) }

\* The tokens of the tests, and the integers of their flat encoding.
SemanticTokenSamples ==
    { SemanticTokenOf(<<2, 5, 3, 0, 3>>), SemanticTokenOf(<<0, 5, 4, 1, 0>>) }

FlatData == <<2, 5, 3, 0, 3, 0, 5, 4, 1, 0>>

\* The first n integers of the flat encoding, repeated from its start.
FlatPrefix(n) == [i \in 1..n |-> JNum(FlatData[((i - 1) % Len(FlatData)) + 1])]

\* The values of the data key: arrays of every length up to MaxLen tokens
\* and a remainder, arrays with an element that is no u32, other shapes.
DataInputs ==
    { JArr(FlatPrefix(n)) : n \in 0..(5 * MaxLen + 4) }
    \cup { JNull, JStr("a"), JNum(1), JObj(EmptyMap), JArr(<<JNum(1)>>), JArr(<<JNum(-1)>>),
           JArr(<<JStr("a")>>), JArr(<<JArr(FlatPrefix(5))>>),
           JArr([FlatPrefix(5) EXCEPT ![3] = JNum(-1)]),
           JArr([FlatPrefix(5) EXCEPT ![3] = JNum(300)]),
           JArr([FlatPrefix(6) EXCEPT ![6] = JBool(TRUE)]) }

TagSupports(tags) == { [value_set |-> t] : t \in SeqsUpTo(tags, 1) }

\* The properties maps: of no, one and two entries, and one whose key is
\* the key of a field that the samples leave None. A key that a field
\* writes as well would be written twice and is in no sample.
PropertiesSamples ==
    { EmptyMap, [key \in {"trimFinalNewlines"} |-> [Bool |-> TRUE]] }
    \cup { [key \in {"prop"} |-> x] : x \in FormattingProperties }
    \cup { [key \in {"prop", "other"} |-> IF key = "prop" THEN x ELSE [String |-> "a"]] :
           x \in FormattingProperties }

\* ClientCapabilities values, and the values of the capabilities key: what
\* the samples are written as and values that are no ClientCapabilities.
NoTextDocument ==
    [f \in { TextDocumentClientCapabilities[i].field :
               i \in DOMAIN TextDocumentClientCapabilities } |-> None]

NoWorkspace ==
    [f \in { WorkspaceClientCapabilities[i].field :
               i \in DOMAIN WorkspaceClientCapabilities } |-> None]

ClientCapabilitiesSamples ==
    { [workspace |-> w, text_document |-> t, window |-> d, experimental |-> e] :
      w \in Optional({ NoWorkspace, [NoWorkspace EXCEPT !.apply_edit = Some(TRUE)] }),
      t \in Optional({ [NoTextDocument EXCEPT
                          !.definition = Some([dynamic_registration |-> None,
                                               link_support |-> Some(TRUE)])] }),
      d \in Optional({ [work_done_progress |-> Some(TRUE)] }),
      e \in Optional({ JNum(1) }) }

CapabilitiesInputs ==
    { Serialize(Struct("ClientCapabilities"), c) : c \in ClientCapabilitiesSamples }
    \cup { JNull, JNum(5), JStr("a"), JArr(<<>>),
           JObj([key \in {"zzz"} |-> JNum(1)]),
           JObj([key \in {"window"} |-> JNum(5)]),
           JObj([key \in {"textDocument"} |->
                   JObj([k \in {"definition"} |-> JNum(5)])]) }

InitializeParamsSamples ==
    { [process_id |-> p, root_path |-> None, root_uri |-> u,
       initialization_options |-> None, capabilities |-> c, trace |-> t,
       workspace_folders |-> None, client_info |-> None] :
      p \in Optional({1}), u \in Optional({"file:///a"}),
      c \in { x \in ClientCapabilitiesSamples : IsNone(x.workspace) /\ IsNone(x.experimental) },
      t \in Optional({Unit("Off"), Unit("Verbose")}) }

\* InitializeParams objects: a capabilities key alone, one more key with
\* it, and no capabilities key.
InitializeParamsInputs ==
    { JObj([key \in {"capabilities"} |-> c]) : c \in CapabilitiesInputs }
    \cup { JObj([key \in {"capabilities", k} |->
                   IF key = "capabilities" THEN JObj(EmptyMap) ELSE x]) :
           k \in {"rootUri", "processId", "trace", "clientInfo", "zzz"},
           x \in { JNull, JNum(1), JStr("a"), JStr("file://test"), JStr("off"),
                   JObj([n \in {"name"} |-> JStr("a")]) } }
    \cup { JObj([key \in {"rootUri"} |-> JNull]),
           JObj([key \in {"rootUri"} |-> JStr("file:///a")]) }

\* FormattingOptions objects with one more key, and with a key missing.
FormattingOptionsInputs ==
    { JObj([key \in {"tabSize", "insertSpaces", k} |->
               IF key = "tabSize" THEN JNum(123)
               ELSE IF key = "insertSpaces" THEN JBool(TRUE) ELSE x]) :
      k \in {"zzz", "properties", "trimFinalNewlines"},
      x \in { JNum(1), JStr("a"), JBool(TRUE), JNull, JArr(<<>>), JObj(EmptyMap) } }
    \cup { JObj([key \in {"tabSize"} |-> JNum(123)]),
           JObj([key \in {"tabSize", "insertSpaces"} |->
                   IF key = "tabSize" THEN JNum(-1) ELSE JBool(TRUE)]) }

\* The sample values of the structs that are encoded and decoded on their
\* own.
StructSamples(name) ==
    CASE name = "GotoCapability" ->
            { [dynamic_registration |-> d, link_support |-> l] :
              d \in Optional(BOOLEAN), l \in Optional(BOOLEAN) }
      [] name = "SymbolKindCapability" ->
            { [value_set |-> x] :
              x \in Optional(SeqsUpTo({Unit("File"), Unit("Unknown")}, 1)) }
      [] name = "Diagnostic" -> Diagnostics
      [] name = "CompletionItemCapability" ->
            { [snippet_support |-> b, commit_characters_support |-> None,
               documentation_format |-> f, deprecated_support |-> None,
               preselect_support |-> None, tag_support |-> t,
               insert_replace_support |-> None] :
              b \in Optional(BOOLEAN), f \in Optional({<<Unit("Markdown")>>}),
              t \in Optional(TagSupports({Unit("Deprecated")})) }
      [] name = "PublishDiagnosticsCapability" ->
            { [related_information |-> b, tag_support |-> t] :
              b \in Optional(BOOLEAN),
              t \in Optional(TagSupports({Unit("Unnecessary"), Unit("Deprecated")})) }
      [] name = "WorkspaceEdit" -> WorkspaceEdits
      [] name = "CodeAction" -> CodeActions
      [] name = "SemanticHighlightingInformation" ->
            { [line |-> l, tokens |-> t] :
              l \in {10, 22}, t \in Optional(SeqsUpTo(Tokens, MaxLen)) }

      [] name = "InitializeParams" -> InitializeParamsSamples
      [] name = "FormattingOptions" ->
            { [tab_size |-> 123, insert_spaces |-> i, properties |-> m,
               trim_trailing_whitespace |-> w, insert_final_newline |-> None,
               trim_final_newlines |-> None] :
              i \in BOOLEAN, m \in PropertiesSamples, w \in Optional(BOOLEAN) }
      [] name = "SemanticTokens" ->
            { [result_id |-> r, data |-> d] :
              r \in Optional({"a"}), d \in SeqsUpTo(SemanticTokenSamples, MaxLen) }
      [] name = "SemanticTokensPartialResult" ->
            { [data |-> d] : d \in SeqsUpTo(SemanticTokenSamples, MaxLen) }
      [] name = "SemanticTokensEdit" ->
            { [start |-> 0, delete_count |-> c, data |-> d] :
              c \in {0, 1}, d \in Optional(SeqsUpTo(SemanticTokenSamples, MaxLen)) }

SampledStructs ==
    { "GotoCapability", "SymbolKindCapability", "Diagnostic",
      "CompletionItemCapability", "PublishDiagnosticsCapability",
      "WorkspaceEdit", "CodeAction", "SemanticHighlightingInformation",
      "SemanticTokens", "SemanticTokensPartialResult", "SemanticTokensEdit",
      "FormattingOptions", "InitializeParams" }

\* The elements of the CodeActionResponse samples: every Command, and the
\* CodeActions with and without a kind and a command of their own.
CodeActionResponseElements ==
    { [Command |-> c] : c \in Commands }
    \cup { [CodeAction |-> c] :
           c \in { a \in CodeActions : IsNone(a.diagnostics) /\ IsNone(a.edit) } }

\* The types values are encoded and decoded at.
Types ==
    { Repr(n) : n \in ReprEnums } \cup { Untagged(n) : n \in UntaggedEnums }
    \cup { Struct(n) : n \in SampledStructs } \cup { TWatchKind, CodeActionResponse }

\* The sample values of a type.
Samples(t) ==
    CASE t.k = "repr" -> ReprVariants(t.name)
      [] t.k = "bitflags" -> { WatchKindOf(S) : S \in SUBSET {"Create", "Change", "Delete"} }
      [] t.k = "untagged" -> UntaggedSamples(t.name)
      [] t.k = "struct" -> StructSamples(t.name)
      [] t.k = "vec" -> SeqsUpTo(CodeActionResponseElements, MaxLen)

\* JSON values of every shape, offered to every decoder.
JsonPool ==
    { JNull, JBool(TRUE), JBool(FALSE), JStr("a"), JStr("x"), JStr("markdown"),
      JArr(<<>>), JArr(<<JNum(1)>>), JArr(<<JNum(0), JNum(1)>>), JArr(<<JStr("a")>>),
      JArr(<<JArr(<<>>)>>), JArr(<<JArr(<<JNum(1)>>)>>), JArr(<<JArr(<<JNum(3)>>)>>),
      JArr(<<JArr(<<JNum(1)>>), JNum(2)>>),
      JArr(<<JNull, JNull>>), JArr(<<JNull, JStr("a")>>),
      JObj(EmptyMap),
      JObj([key \in {"zzz"} |-> JNum(1)]),
      JObj([key \in {"documentSelector"} |-> JNull]),
      JObj([key \in {"id"} |-> JStr("a")]),
      JObj([key \in {"id"} |-> JNum(1)]),
      JObj([key \in {"workDoneProgress"} |-> JBool(TRUE)]),
      JObj([key \in {"title", "command"} |-> JStr("a")]),
      JObj([key \in {"language", "value", "kind"} |-> JStr("markdown")]),
      JObj([key \in {"kind"} |-> JStr("create")]),
      JObj([key \in {"valueSet"} |-> JArr(<<JNum(1)>>)]),
      JObj([key \in {"valueSet"} |-> JArr(<<JNum(9)>>)]),
      JObj([key \in {"severity"} |-> JNum(5)]) }
    \cup { JNum(n) : n \in IntInputs }

\* The values of the tagSupport key offered to the capability structs, and
\* the objects holding them; the object with no key is in JsonPool.
TagSupportInputs ==
    { JNull, JBool(TRUE), JBool(FALSE), JStr("x"), JNum(1), JNum(0),
      JArr(<<>>), JArr(<<JNum(1)>>), JArr(<<JArr(<<>>)>>), JArr(<<JArr(<<JNum(1)>>)>>),
      JArr(<<JArr(<<JNum(1)>>), JNum(2)>>), JArr(<<JArr(<<JNum(9)>>)>>),
      JObj(EmptyMap), JObj([key \in {"zzz"} |-> JNum(1)]),
      JObj([key \in {"valueSet"} |-> JStr("x")]) }
    \cup { JObj([key \in {"valueSet"} |-> JArr(a)]) :
           a \in SeqsUpTo({JNum(1), JNum(2), JNum(9)}, MaxLen) }

\* The JSON values a type is decoded from.
JsonInputs(t) ==
    JsonPool \cup { Serialize(t, v) : v \in Samples(t) }
    \cup IF t.k = "struct" /\ t.name \in {"CompletionItemCapability", "PublishDiagnosticsCapability"}
         THEN { JObj([key \in {"tagSupport"} |-> x]) : x \in TagSupportInputs }
              \cup { JObj([key \in {"tagSupport", "snippetSupport"} |->
                              IF key = "tagSupport" THEN x ELSE JBool(TRUE)]) :
                     x \in {JBool(TRUE), JBool(FALSE)} }
         ELSE IF t.k = "struct" /\ t.name = "SemanticHighlightingInformation"
         THEN { JObj([key \in {"line", "tokens"} |->
                         IF key = "line" THEN JNum(10) ELSE x]) : x \in TokensInputs }
              \cup { JObj([key \in {"line"} |-> JNum(22)]),
                     JObj([key \in {"tokens"} |-> JNull]) }
         ELSE IF t.k = "struct" /\ t.name = "Diagnostic"
         THEN DiagnosticInputs
         ELSE IF t.k = "struct" /\ t.name = "FormattingOptions"
         THEN FormattingOptionsInputs
         ELSE IF t.k = "struct" /\ t.name = "InitializeParams"
         THEN InitializeParamsInputs
         ELSE IF t.k = "struct" /\ t.name = "WorkspaceEdit"
         THEN { JObj([key \in {"changes"} |-> x]) : x \in ChangesInputs }
         ELSE IF t.k = "struct" /\ t.name \in {"SemanticTokens", "SemanticTokensPartialResult"}
         THEN { JObj([key \in {"data"} |-> x]) : x \in DataInputs }
              \cup { JObj([key \in {"resultId"} |-> JStr("a")]) }
         ELSE IF t.k = "struct" /\ t.name = "SemanticTokensEdit"
         THEN { JObj([key \in {"start", "deleteCount", "data"} |->
                         IF key = "start" THEN JNum(0)
                         ELSE IF key = "deleteCount" THEN JNum(1) ELSE x]) :
                     x \in DataInputs }
              \cup { JObj([key \in {"start", "deleteCount"} |->
                              IF key = "start" THEN JNum(0) ELSE JNum(1)]),
                     JObj([key \in {"data"} |-> JArr(FlatPrefix(5))]) }
         ELSE {}

(* ------------------------------- Text --------------------------------- *)

\* The types that hold a std HashMap, and the keys of the map in a value.
MapTypes == { Struct("WorkspaceEdit"), Struct("FormattingOptions") }

MapKeys(t, v) ==
    IF t = Struct("WorkspaceEdit")
    THEN IF IsNone(v.changes) THEN {} ELSE DOMAIN v.changes[1]
    ELSE DOMAIN v.properties

\* The orders a HashMap may hand its entries out in: the order of iteration
\* follows the keys of its RandomState and the history of the table, none
\* of which is part of the value, so every order of the keys is possible.
IterationOrders(keys) ==
    { o \in [1..Cardinality(keys) -> keys] : \A i, h \in DOMAIN o : o[i] = o[h] => i = h }

\* serde_json::to_string: the text is the JSON value and, the fields of a
\* struct being written in declared order, the order the entries of the map
\* were written in.
to_string(t, v, order) == [json |-> Serialize(t, v), entries |-> order]

(* ------------------------------ Requests ------------------------------ *)

\* The arms of lsp_request!: the method name literal of each and the marker
\* type of crate::request it expands to.
LspRequestArms ==
    << <<"initialize", "Initialize">>,
       <<"shutdown", "Shutdown">>,
       <<"window/showMessageRequest", "ShowMessageRequest">>,
       <<"client/registerCapability", "RegisterCapability">>,
       <<"client/unregisterCapability", "UnregisterCapability">>,
       <<"workspace/symbol", "WorkspaceSymbol">>,
       <<"workspace/executeCommand", "ExecuteCommand">>,
       <<"textDocument/completion", "Completion">>,
       <<"completionItem/resolve", "ResolveCompletionItem">>,
       <<"textDocument/hover", "HoverRequest">>,
       <<"textDocument/signatureHelp", "SignatureHelpRequest">>,
       <<"textDocument/definition", "GotoDefinition">>,
       <<"textDocument/references", "References">>,
       <<"textDocument/documentHighlight", "DocumentHighlightRequest">>,
       <<"textDocument/documentSymbol", "DocumentSymbolRequest">>,
       <<"textDocument/codeAction", "CodeActionRequest">>,
       <<"textDocument/codeLens", "CodeLensRequest">>,
       <<"codeLens/resolve", "CodeLensResolve">>,
       <<"textDocument/documentLink", "DocumentLinkRequest">>,
       <<"documentLink/resolve", "DocumentLinkResolve">>,
       <<"workspace/applyEdit", "ApplyWorkspaceEdit">>,
       <<"textDocument/rangeFormatting", "RangeFormatting">>,
       <<"textDocument/onTypeFormatting", "OnTypeFormatting">>,
       <<"textDocument/formatting", "Formatting">>,
       <<"textDocument/rename", "Rename">> >>

\* The impl Request blocks of request.rs: the marker type of each and its
\* METHOD.
RequestImpls ==
    << <<"Initialize", "initialize">>,
       <<"Shutdown", "shutdown">>,
       <<"ShowMessageRequest", "window/showMessageRequest">>,
       <<"RegisterCapability", "client/registerCapability">>,
       <<"UnregisterCapability", "client/unregisterCapability">>,
       <<"Completion", "textDocument/completion">>,
       <<"ResolveCompletionItem", "completionItem/resolve">>,
       <<"HoverRequest", "textDocument/hover">>,
       <<"SignatureHelpRequest", "textDocument/signatureHelp">>,
       <<"GotoDefinition", "textDocument/definition">>,
       <<"References", "textDocument/references">>,
       <<"GotoTypeDefinition", "textDocument/typeDefinition">>,
       <<"GotoImplementation", "textDocument/implementation">>,
       <<"DocumentHighlightRequest", "textDocument/documentHighlight">>,
       <<"DocumentSymbolRequest", "textDocument/documentSymbol">>,
       <<"WorkspaceSymbol", "workspace/symbol">>,
       <<"ExecuteCommand", "workspace/executeCommand">>,
       <<"ApplyWorkspaceEdit", "workspace/applyEdit">>,
       <<"CodeActionRequest", "textDocument/codeAction">>,
       <<"CodeLensRequest", "textDocument/codeLens">>,
       <<"CodeLensResolve", "codeLens/resolve">>,
       <<"DocumentLinkRequest", "textDocument/documentLink">>,
       <<"DocumentLinkResolve", "documentLink/resolve">>,
       <<"Formatting", "textDocument/formatting">>,
       <<"RangeFormatting", "textDocument/rangeFormatting">>,
       <<"OnTypeFormatting", "textDocument/onTypeFormatting">>,
       <<"Rename", "textDocument/rename">> >>

\* An expansion that takes the first arm for every literal the macro
\* accepts.
LspRequestFirstArm(name) ==
    IF \E i \in DOMAIN LspRequestArms : LspRequestArms[i][1] = name
    THEN Ok(LspRequestArms[1][2])
    ELSE Err("no_rules_expected", JStr(name), "lsp_request", {})

\* lsp_request!(name): the marker type of the arm whose literal is name; a
\* literal of no arm does not compile, "no rules expected the token".
LspRequest(name) ==
    IF \E i \in DOMAIN LspRequestArms : LspRequestArms[i][1] = name
    THEN Ok(LspRequestArms[CHOOSE i \in DOMAIN LspRequestArms :
                              LspRequestArms[i][1] = name][2])
    ELSE Err("no_rules_expected", JStr(name), "lsp_request", {})

\* <T as Request>::METHOD: the constant of the impl block of T; a type with
\* no impl block does not compile.
Method(marker) ==
    IF \E i \in DOMAIN RequestImpls : RequestImpls[i][1] = marker
    THEN Ok(RequestImpls[CHOOSE i \in DOMAIN RequestImpls : RequestImpls[i][1] = marker][2])
    ELSE Err("not_implemented", JStr(marker), "Request", {})

(* ---------------------------- Notifications --------------------------- *)

\* The arms of lsp_notification!: the method name literal of each and the
\* path in crate::notification it expands to.
LspNotificationArms ==
    << <<"$/cancelRequest", "Cancel">>,
       <<"initialized", "Initialized">>,
       <<"exit", "Exit">>,
       <<"window/showMessage", "ShowMessage">>,
       <<"window/logMessage", "LogMessage">>,
       <<"telemetry/event", "Event">>,
       <<"client/registerCapability", "RegisterCapability">>,
       <<"client/unregisterCapability", "UnregisterCapability">>,
       <<"textDocument/didOpen", "DidOpenTextDocument">>,
       <<"textDocument/didChange", "DidChangeTextDocument">>,
       <<"textDocument/willSave", "WillSaveTextDocument">>,
       <<"textDocument/didSave", "DidSaveTextDocument">>,
       <<"textDocument/didClose", "DidCloseTextDocument">>,
       <<"textDocument/publishDiagnostics", "PublishDiagnostics">>,
       <<"workspace/didChangeConfiguration", "DidChangeConfiguration">>,
       <<"workspace/didChangeWatchedFiles", "DidChangeWatchedFiles">> >>

\* The impl Notification blocks of notification.rs: the marker type of each
\* and its METHOD.
NotificationImpls ==
    << <<"Cancel", "$/cancelRequest">>,
       <<"Initialized", "initialized">>,
       <<"Exit", "exit">>,
       <<"ShowMessage", "window/showMessage">>,
       <<"LogMessage", "window/logMessage">>,
       <<"TelemetryEvent", "telemetry/event">>,
       <<"RegisterCapability", "client/registerCapability">>,
       <<"UnregisterCapability", "client/unregisterCapability">>,
       <<"DidChangeConfiguration", "workspace/didChangeConfiguration">>,
       <<"DidOpenTextDocument", "textDocument/didOpen">>,
       <<"DidChangeTextDocument", "textDocument/didChange">>,
       <<"WillSave", "textDocument/willSave">>,
       <<"WillSaveWaitUntil", "textDocument/willSaveWaitUntil">>,
       <<"DidCloseTextDocument", "textDocument/didClose">>,
       <<"DidSaveTextDocument", "textDocument/didSave">>,
       <<"DidChangeWatchedFiles", "workspace/didChangeWatchedFiles">>,
       <<"PublishDiagnostics", "textDocument/publishDiagnostics">> >>

\* lsp_notification!(name): the path of the arm whose literal is name; a
\* literal of no arm does not compile.
LspNotification(name) ==
    IF \E i \in DOMAIN LspNotificationArms : LspNotificationArms[i][1] = name
    THEN Ok(LspNotificationArms[CHOOSE i \in DOMAIN LspNotificationArms :
                                   LspNotificationArms[i][1] = name][2])
    ELSE Err("no_rules_expected", JStr(name), "lsp_notification", {})

\* <T as Notification>::METHOD: the constant of the impl block of T; a path
\* that names no type of the module does not compile.
NotificationMethod(marker) ==
    IF \E i \in DOMAIN NotificationImpls : NotificationImpls[i][1] = marker
    THEN Ok(NotificationImpls[CHOOSE i \in DOMAIN NotificationImpls :
                                 NotificationImpls[i][1] = marker][2])
    ELSE Err("cannot_find_type", JStr(marker), "notification", {})

\* Every marker type with its module and its METHOD.
Bindings ==
    { [module |-> "request", marker |-> RequestImpls[i][1], METHOD |-> RequestImpls[i][2]] :
      i \in DOMAIN RequestImpls }
    \cup { [module |-> "notification", marker |-> NotificationImpls[i][1],
            METHOD |-> NotificationImpls[i][2]] : i \in DOMAIN NotificationImpls }

(* -------------------------------- Uri --------------------------------- *)
(* pub struct Uri(fluent_uri::Uri<String>): a value is the record of the   *)
(* string it was parsed from, held as its characters.                      *)

\* The most characters a Uri has after its scheme.
MaxUriLen == 2

\* The characters of the Uris and the byte each is in UTF-8.
UriBytes == << <<"/", 47>>, <<":", 58>>, <<"a", 97>>, <<"b", 98>> >>

\* The byte of a character.
ByteOf(c) == UriBytes[CHOOSE i \in DOMAIN UriBytes : UriBytes[i][1] = c][2]

\* Uri::from_str on the scheme a: and a rest of "/", "a" and "b"; the string
\* is kept as it is given.
Uris ==
    { [uri |-> <<"a", ":">> \o rest] : rest \in SeqsUpTo({"/", "a", "b"}, MaxUriLen) }

\* Deref to fluent_uri::Uri<String>, then as_str(): the string parsed.
as_str(u) == u.uri

RECURSIVE StrCmp(_, _)
\* <str as Ord>::cmp: the bytes in order, the first that differ decide;
\* when one string ends first the shorter is Less.
StrCmp(s, t) ==
    IF Len(s) = 0 /\ Len(t) = 0 THEN "Equal"
    ELSE IF Len(s) = 0 THEN "Less"
    ELSE IF Len(t) = 0 THEN "Greater"
    ELSE IF ByteOf(Head(s)) < ByteOf(Head(t)) THEN "Less"
    ELSE IF ByteOf(Head(s)) > ByteOf(Head(t)) THEN "Greater"
    ELSE StrCmp(Tail(s), Tail(t))

\* An order by the length of the string alone.
cmp_by_len(a, b) ==
    IF Len(as_str(a)) < Len(as_str(b)) THEN "Less"
    ELSE IF Len(as_str(a)) > Len(as_str(b)) THEN "Greater"
    ELSE "Equal"

\* impl Ord for Uri: self.as_str().cmp(other.as_str())
cmp(a, b) == StrCmp(as_str(a), as_str(b))

\* impl PartialOrd for Uri: Some(self.cmp(other))
partial_cmp(a, b) == Some(cmp(a, b))

\* impl PartialEq for Uri: self.as_str() == other.as_str()
eq(a, b) == as_str(a) = as_str(b)

RECURSIVE Write(_, _)
\* Hasher::write of a hasher H: the bytes folded into the 16 bits of state.
Write(state, bytes) ==
    IF Len(bytes) = 0 THEN state
    ELSE Write((state * 31 + Head(bytes)) % 65536, Tail(bytes))

\* impl Hash for Uri: self.as_str().hash(state), which writes the bytes of
\* the string and then the byte 0xff; the value is what finish() returns.
hash(u, state) ==
    Write(Write(state, [i \in DOMAIN as_str(u) |-> ByteOf(as_str(u)[i])]), <<255>>)

(* -------------------------- State machine ----------------------------- *)
(* op is the operation that produced the state: "idle" before a call,      *)
(* "serialize" (serde_json::to_string of a value), "deserialize"           *)
(* (serde_json::from_str of a text), "round_trip" (the tests' helper       *)
(* test_serialization: to_string, then from_str of what it wrote),         *)
(* "to_string_twice" (two equal values written, wire the first text and    *)
(* res the second), "check_macro" (lsp_request! expanded on a method name) *)
(* or "check_notification_macro" (lsp_notification! expanded on one). ty is *)
(* the type the call is made at, arg its input, wire the JSON written or   *)
(* read, res the value returned.                                           *)

NoType == [k |-> "none", name |-> ""]

\* The value an action keeps in arg: every value of the model is a record
\* but a Vec, a sequence, which is kept under the field vec.
Held(t, v) == IF t.k = "vec" THEN [vec |-> v] ELSE v

\* The result an action keeps in res: the value of an Ok kept as arg is.
HeldResult(t, r) == IF IsOk(r) THEN Ok(Held(t, r.ok)) ELSE r

Init ==
    /\ op = "idle"
    /\ ty = NoType
    /\ arg = JNull
    /\ wire = JNull
    /\ res = Ok(JNull)

\* serde_json::to_string(&v)
SerializeValue(t, v) ==
    /\ op = "idle"
    /\ op' = "serialize"
    /\ ty' = t
    /\ arg' = Held(t, v)
    /\ wire' = Serialize(t, v)
    /\ res' = Ok(wire')

\* serde_json::from_str::<T>(json)
DeserializeJson(t, j) ==
    /\ op = "idle"
    /\ op' = "deserialize"
    /\ ty' = t
    /\ arg' = j
    /\ wire' = j
    /\ res' = HeldResult(t, Deserialize(t, j))

\* tests::test_serialization: to_string, then from_str of the text written.
RoundTrip(t, v) ==
    /\ op = "idle"
    /\ op' = "round_trip"
    /\ ty' = t
    /\ arg' = Held(t, v)
    /\ wire' = Serialize(t, v)
    /\ res' = HeldResult(t, Deserialize(t, wire'))

\* serde_json::to_string of two equal values, each map with an iteration
\* order of its own.
ToStringTwice(t, v) ==
    /\ op = "idle"
    /\ op' = "to_string_twice"
    /\ ty' = t
    /\ arg' = v
    /\ \E first, second \in IterationOrders(MapKeys(t, v)) :
          /\ wire' = to_string(t, v, first)
          /\ res' = Ok(to_string(t, v, second))

\* The method names given to lsp_request!: the METHOD of every impl block
\* and a name that is no method.
MethodNames == { RequestImpls[i][2] : i \in DOMAIN RequestImpls } \cup { "textDocument/foo" }

\* test::check_macro!(name): the macro expanded and the METHOD of the type it
\* names read.
CheckMacro(name) ==
    /\ op = "idle"
    /\ op' = "check_macro"
    /\ ty' = NoType
    /\ arg' = JStr(name)
    /\ wire' = JStr(name)
    /\ res' = LET marker == LspRequest(name)
              IN  IF IsErr(marker) THEN marker
                  ELSE LET method == Method(marker.ok)
                       IN  IF IsErr(method) THEN method
                           ELSE Ok([marker |-> marker.ok, METHOD |-> method.ok])

\* The method names given to lsp_notification!: the literal of every arm,
\* the METHOD of every impl block and a name that is no method.
NotificationNames ==
    { LspNotificationArms[i][1] : i \in DOMAIN LspNotificationArms }
    \cup { NotificationImpls[i][2] : i \in DOMAIN NotificationImpls }
    \cup { "textDocument/foo" }

\* lsp_notification!(name) expanded and the METHOD of the type it names
\* read, as check_macro! does for the requests.
CheckNotificationMacro(name) ==
    /\ op = "idle"
    /\ op' = "check_notification_macro"
    /\ ty' = NoType
    /\ arg' = JStr(name)
    /\ wire' = JStr(name)
    /\ res' = LET marker == LspNotification(name)
              IN  IF IsErr(marker) THEN marker
                  ELSE LET method == NotificationMethod(marker.ok)
                       IN  IF IsErr(method) THEN method
                           ELSE Ok([marker |-> marker.ok, METHOD |-> method.ok])

\* Two Uris compared, tested for equality and hashed by two hashers that
\* start from the same state.
CompareUris(a, b) ==
    /\ op = "idle"
    /\ op' = "compare_uris"
    /\ ty' = NoType
    /\ arg' = [a |-> a, b |-> b]
    /\ wire' = JNull
    /\ res' = Ok([eq |-> eq(a, b), cmp |-> cmp(a, b), partial_cmp |-> partial_cmp(a, b),
                  hash_a |-> hash(a, 0), hash_b |-> hash(b, 0)])

\* The value is dropped; the next call starts from nothing.
Done ==
    /\ op # "idle"
    /\ op' = "idle"
    /\ ty' = NoType
    /\ arg' = JNull
    /\ wire' = JNull
    /\ res' = Ok(JNull)

Next ==
    \/ \E t \in Types : \E v \in Samples(t) : SerializeValue(t, v)
    \/ \E t \in Types : \E j \in JsonInputs(t) : DeserializeJson(t, j)
    \/ \E t \in Types : \E v \in Samples(t) : RoundTrip(t, v)
    \/ \E t \in MapTypes : \E v \in Samples(t) : ToStringTwice(t, v)
    \/ \E name \in MethodNames : CheckMacro(name)
    \/ \E name \in NotificationNames : CheckNotificationMacro(name)
    \/ \E a \in Uris : \E b \in Uris : CompareUris(a, b)
    \/ Done

Spec == Init /\ [][Next]_vars

(* ------------------------------ Claims -------------------------------- *)

\* The capability structs whose tagSupport key is read by
\* TagSupport::deserialize_compat, and the enum of their tags.
TagEnum(t) ==
    CASE t = Struct("CompletionItemCapability") -> "CompletionItemTag"
      [] t = Struct("PublishDiagnosticsCapability") -> "DiagnosticTag"
      [] OTHER -> ""

\* A decode of an object holding the tagSupport key at a capability struct.
DecodesTagSupport ==
    /\ op = "deserialize"
    /\ TagEnum(ty) # ""
    /\ IsObj(arg)
    /\ "tagSupport" \in DOMAIN arg.obj

\* The untagged enums claim C1 lists.
RoundTripEnums == UntaggedEnums \ {"DocumentChangeOperation"}

\* C1 (as the spec states it): for every untagged union, decoding what
\* encoding wrote gives back the value that was encoded, values with empty
\* lists and with every optional field absent included.
C1_UntaggedRoundTrip ==
    (op = "round_trip" /\ ty.k = "untagged" /\ ty.name \in RoundTripEnums)
        => res = Ok(arg)

\* C2 (as the spec states it): decoding SymbolKind from an integer that is
\* not in 1..26, such as 99, gives SymbolKind::Unknown.
C2_UnknownFallback ==
    (op = "deserialize" /\ ty = Repr("SymbolKind") /\ IsNum(arg) /\ arg.num \notin 1..26)
        => res = Ok(Unit("Unknown"))

\* C3 (as the spec states it): decoding the tokens of
\* SemanticHighlightingInformation fails whenever the string is not valid
\* base64 or its bytes are not a multiple of 8 in number; a trailing partial
\* chunk is never dropped silently.
C3_PartialChunkRejected ==
    (/\ op = "deserialize"
     /\ ty = Struct("SemanticHighlightingInformation")
     /\ IsObj(arg)
     /\ DOMAIN arg.obj = {"line", "tokens"}
     /\ IsText(arg.obj.tokens)
     /\ \/ IsErr(Base64Decode(arg.obj.tokens.text))
        \/ Len(Base64Decode(arg.obj.tokens.text).ok) % 8 # 0)
        => IsErr(res)

\* C4 (as the spec states it): deserialize_compat returns a decode error for
\* every value that is neither a boolean nor an object nor absent: a string,
\* a number, an array and null are all rejected.
C4_OtherTypesRejected ==
    (DecodesTagSupport
     /\ ~IsBool(arg.obj.tagSupport) /\ ~IsObj(arg.obj.tagSupport))
        => IsErr(res)

\* C4 (amended): deserialize_compat returns a decode error for every string
\* and every number, and for every array that has not exactly one element;
\* null is read as None, like an absent key, and a one-element array is
\* read as the struct by position ([[1]] gives the tag of discriminant 1).
C4_StringsAndNumbersRejected ==
    DecodesTagSupport =>
        LET x == arg.obj.tagSupport
        IN  /\ (IsStr(x) \/ IsNum(x)) => IsErr(res)
            /\ (IsArr(x) /\ Len(x.arr) # 1) => IsErr(res)
            /\ IsNull(x) => (IsOk(res) /\ res.ok.tag_support = None)
            /\ x = JArr(<<JArr(<<JNum(1)>>)>>) =>
                  /\ IsOk(res)
                  /\ res.ok.tag_support =
                        Some([value_set |-> <<Unit(ReprTable(TagEnum(ty))[1][1])>>])

\* C4 witness: null and a one-element array are both taken, a string is not.
C4_NullTaken ==
    /\ DecodesTagSupport
    /\ IsNull(arg.obj.tagSupport)
    /\ IsOk(res)
    /\ res.ok.tag_support = None

\* C5: deserialize_compat gives None for an absent key and for false, Some
\* of an empty value_set for true, and for an object {"valueSet": [...]}
\* Some of the decoded list ([1] gives [Deprecated]).
C5_CompatValues ==
    (op = "deserialize" /\ TagEnum(ty) # "" /\ IsObj(arg)
     /\ DOMAIN arg.obj \subseteq {"tagSupport", "snippetSupport"})
        => LET o == arg.obj
               x == o.tagSupport
               t == ReprTable(TagEnum(ty))
               known(a) == \A i \in DOMAIN a :
                              IsNum(a[i]) /\ \E h \in DOMAIN t : t[h][2] = a[i].num
               variant(n) == Unit(t[CHOOSE h \in DOMAIN t : t[h][2] = n][1])
           IN  IF "tagSupport" \notin DOMAIN o
               THEN IsOk(res) /\ res.ok.tag_support = None
               ELSE /\ (IsBool(x) /\ ~x.bool) => (IsOk(res) /\ res.ok.tag_support = None)
                    /\ (IsBool(x) /\ x.bool) =>
                          (IsOk(res) /\ res.ok.tag_support = Some([value_set |-> <<>>]))
                    /\ (IsObj(x) /\ DOMAIN x.obj = {"valueSet"} /\ IsArr(x.obj.valueSet)
                        /\ known(x.obj.valueSet.arr)) =>
                          /\ IsOk(res)
                          /\ res.ok.tag_support =
                               Some([value_set |->
                                       [i \in DOMAIN x.obj.valueSet.arr |->
                                           variant(x.obj.valueSet.arr[i].num)]])

\* C5 witness: {"tagSupport": {"valueSet": [1]}} read as Some([Deprecated]).
C5_DeprecatedDecoded ==
    /\ DecodesTagSupport
    /\ ty = Struct("CompletionItemCapability")
    /\ arg.obj.tagSupport = JObj([key \in {"valueSet"} |-> JArr(<<JNum(1)>>)])
    /\ IsOk(res)
    /\ res.ok.tag_support = Some([value_set |-> <<Unit("Deprecated")>>])

\* C6 (as the spec states it): a field of type Option is left out of the
\* JSON object when it is None and is never written as null; so are
\* GotoCapability.linkSupport, SymbolKindCapability.valueSet and the
\* optional fields of Diagnostic.
C6_NoneOmitted ==
    (/\ op = "serialize"
     /\ ty \in {Struct("GotoCapability"), Struct("SymbolKindCapability"), Struct("Diagnostic")})
        => \A key \in DOMAIN wire.obj : ~IsNull(wire.obj[key])

\* C7: for every enum written as an integer, decoding what encoding wrote
\* gives back the variant that was encoded.
C7_ReprRoundTrip ==
    (op = "round_trip" /\ ty.k = "repr") => res = Ok(arg)

\* C7 witness: SymbolKind::Unknown written as 255 and read back.
C7_UnknownRoundTrip ==
    /\ op = "round_trip"
    /\ ty = Repr("SymbolKind")
    /\ arg = Unit("Unknown")
    /\ wire = JNum(255)
    /\ res = Ok(Unit("Unknown"))

\* C8 (as the spec states it): for every enum other than SymbolKind, decoding
\* an integer that is no discriminant fails with an invalid-value error that
\* reports the integer received and the set of valid values; no variant is
\* produced.
C8_ValidSetReported ==
    (/\ op = "deserialize"
     /\ ty.k = "repr"
     /\ ty.name # "SymbolKind"
     /\ IsNum(arg)
     /\ arg.num \notin Discriminants(ty.name))
        => /\ IsErr(res)
           /\ res.err.kind = "invalid_value"
           /\ res.err.got = arg
           /\ res.err.valid = Discriminants(ty.name)

\* C8 (amended): for every enum other than SymbolKind, decoding an integer
\* that is no discriminant fails with an invalid-value error that reports
\* the integer received and produces no variant; the error names the set of
\* valid values when the integer is in 0..255, and names u8, with no set of
\* valid values, when it is not.
C8_InvalidValue ==
    (/\ op = "deserialize"
     /\ ty.k = "repr"
     /\ ty.name # "SymbolKind"
     /\ IsNum(arg)
     /\ arg.num \notin Discriminants(ty.name))
        => /\ IsErr(res)
           /\ res.err.kind = "invalid_value"
           /\ res.err.got = arg
           /\ IF arg.num \in 0..255
              THEN res.err.what = ty.name /\ res.err.valid = Discriminants(ty.name)
              ELSE res.err.what = "u8" /\ res.err.valid = {}

\* C8 witness: DiagnosticSeverity from 5 fails and names 1, 2, 3, 4; from
\* 300 the decode has failed before any discriminant is looked at.
C8_FiveRejected ==
    /\ op = "deserialize"
    /\ ty = Repr("DiagnosticSeverity")
    /\ arg = JNum(5)
    /\ IsErr(res)
    /\ res.err.valid = {1, 2, 3, 4}

\* C9: encoding an enum written as an integer writes the discriminant of the
\* variant as a bare JSON number, and two variants of one enum are never
\* written as the same number.
C9_DiscriminantWritten ==
    (op = "serialize" /\ ty.k = "repr")
        => LET t == ReprTable(ty.name)
           IN  /\ \E i \in DOMAIN t : Unit(t[i][1]) = arg /\ wire = JNum(t[i][2])
               /\ \A v \in ReprVariants(ty.name) :
                     v # arg => Serialize(ty, v) # wire

\* C9 witness: CompletionItemKind::TypeParameter written as 25.
C9_TypeParameterWritten ==
    /\ op = "serialize"
    /\ ty = Repr("CompletionItemKind")
    /\ arg = Unit("TypeParameter")
    /\ wire = JNum(25)

\* C10: decoding an untagged enum tries the variants in declared order and
\* returns the first that reads the input, a later variant that would read
\* it too notwithstanding; when no variant reads it the decode fails with
\* the no-variant-matched error.
C10_FirstVariantWins ==
    (op = "deserialize" /\ ty.k = "untagged")
        => LET variants == UntaggedVariants(ty.name)
               reads == { i \in DOMAIN variants : IsOk(Deserialize(variants[i][2], arg)) }
           IN  IF reads = {}
               THEN IsErr(res) /\ res.err.kind = "no_variant"
               ELSE LET first == CHOOSE i \in reads : \A h \in reads : i <= h
                    IN  /\ IsOk(res)
                        /\ DOMAIN res.ok = { variants[first][1] }
                        /\ res.ok[variants[first][1]] =
                              Deserialize(variants[first][2], arg).ok

\* C10 witness: an input that two variants read, the earlier one returned.
C10_EarlierOfTwo ==
    /\ op = "deserialize"
    /\ ty = Untagged("GotoDefinitionResponse")
    /\ arg = JArr(<<>>)
    /\ IsOk(Deserialize(Vec(Struct("Location")), arg))
    /\ IsOk(Deserialize(Vec(Struct("LocationLink")), arg))
    /\ res = Ok([Array |-> <<>>])


\* C11: encoding a value of an untagged enum writes what the payload of its
\* variant writes and no wrapper or tag: NumberOrString::Number(n) is the
\* bare number n, NumberOrString::String(s) and MarkedString::String(s) the
\* bare string s, MarkedString::LanguageString the object of its two keys.
C11_PayloadOnly ==
    (op = "serialize" /\ ty.k = "untagged")
        => LET variant == VariantOf(arg)
               variants == UntaggedVariants(ty.name)
           IN  /\ \E i \in DOMAIN variants :
                     /\ variants[i][1] = variant
                     /\ wire = Serialize(variants[i][2], arg[variant])
               /\ (ty.name = "NumberOrString" /\ variant = "Number")
                     => wire = JNum(arg.Number)
               /\ (ty.name \in {"NumberOrString", "MarkedString"} /\ variant = "String")
                     => wire = JStr(arg.String)
               /\ (ty.name = "MarkedString" /\ variant = "LanguageString")
                     => wire = JObj([key \in {"language", "value"} |->
                                       IF key = "language"
                                       THEN JStr(arg.LanguageString.language)
                                       ELSE JStr(arg.LanguageString.value)])

\* C11 witness: MarkedString::LanguageString written as the object of its
\* language and value.
C11_LanguageStringWritten ==
    /\ op = "serialize"
    /\ ty = Untagged("MarkedString")
    /\ arg = [LanguageString |-> [language |-> "a", value |-> "b"]]
    /\ wire = JObj([key \in {"language", "value"} |->
                      IF key = "language" THEN JStr("a") ELSE JStr("b")])


\* C12 (as the spec states it): WatchKind is decoded from an integer only if
\* every bit set in it is Create = 1, Change = 2 or Delete = 4, and is then
\* exactly the flags whose bits are set; an integer with any other bit set
\* fails with the invalid-value error that cites an unknown flag.
C12_UnknownFlagCited ==
    (op = "deserialize" /\ ty = TWatchKind /\ IsNum(arg))
        => IF arg.num \in 0..7
           THEN /\ IsOk(res)
                /\ \A i \in DOMAIN WatchKindFlags :
                      Contains(res.ok, WatchKindFlags[i][1])
                          <=> Bit(arg.num, i - 1) = 1
           ELSE /\ IsErr(res)
                /\ res.err.kind = "invalid_value"
                /\ res.err.what = "Unknown flag"

\* C12 (amended): WatchKind is decoded from an integer only if every bit set
\* in it is Create = 1, Change = 2 or Delete = 4, and is then exactly the
\* flags whose bits are set, no more bits kept; an integer in 8..255 fails
\* with the invalid-value error that cites an unknown flag, and an integer
\* outside 0..255 fails with the invalid-value error of the u8 read, which
\* cites no flag. No bit is ever masked off.
C12_KnownBitsOnly ==
    (op = "deserialize" /\ ty = TWatchKind /\ IsNum(arg))
        => IF arg.num \in 0..7
           THEN /\ IsOk(res)
                /\ res.ok.bits = arg.num
                /\ \A i \in DOMAIN WatchKindFlags :
                      Contains(res.ok, WatchKindFlags[i][1])
                          <=> Bit(arg.num, i - 1) = 1
           ELSE /\ IsErr(res)
                /\ res.err.kind = "invalid_value"
                /\ res.err.got = arg
                /\ res.err.what = IF arg.num \in 8..255 THEN "Unknown flag" ELSE "u8"

\* C12 witness: 3 is read as Create and Change without Delete, and 9 has
\* failed on its unknown bit.
C12_ThreeDecoded ==
    /\ op = "deserialize"
    /\ ty = TWatchKind
    /\ arg = JNum(3)
    /\ IsOk(res)
    /\ Contains(res.ok, "Create") /\ Contains(res.ok, "Change")
    /\ ~Contains(res.ok, "Delete")

\* C13: WatchKind is written as one JSON integer, the bitwise or of the
\* values of its flags (Create 1, Create | Change 3, all three 7), and each
\* of the 8 subsets of the flags is read back from what it was written as.
C13_BitsWritten ==
    (op \in {"serialize", "round_trip"} /\ ty = TWatchKind)
        => /\ \E S \in SUBSET {"Create", "Change", "Delete"} :
                 /\ arg = WatchKindOf(S)
                 /\ wire = JNum((IF "Create" \in S THEN 1 ELSE 0)
                                + (IF "Change" \in S THEN 2 ELSE 0)
                                + (IF "Delete" \in S THEN 4 ELSE 0))
           /\ op = "round_trip" => res = Ok(arg)

\* C13 witness: Create | Change written as 3 and read back.
C13_CreateChangeRoundTrip ==
    /\ op = "round_trip"
    /\ ty = TWatchKind
    /\ arg = WatchKindOf({"Create", "Change"})
    /\ wire = JNum(3)
    /\ res = Ok(arg)


\* C14: a list of SemanticHighlightingToken is written as one JSON string,
\* the standard padded base64 of 8 bytes a token in list order: character
\* in 4 bytes, length in 2, scope in 2, each big-endian. The tokens
\* {1, 2, 3} and {0x00112222, 0x0FF0, 0x0202} are written as exactly
\* "AAAAAQACAAMAESIiD/ACAg==".
C14_TokensWritten ==
    (/\ op = "serialize"
     /\ ty = Struct("SemanticHighlightingInformation")
     /\ ~IsNone(arg.tokens))
        => LET tokens == arg.tokens[1]
               n == Len(tokens)
               bytes == [h \in 1..(8 * n) |->
                           LET t == tokens[(h - 1) \div 8 + 1]
                               o == (h - 1) % 8
                           IN  CASE o = 0 -> (t.character \div 16777216) % 256
                                 [] o = 1 -> (t.character \div 65536) % 256
                                 [] o = 2 -> (t.character \div 256) % 256
                                 [] o = 3 -> t.character % 256
                                 [] o = 4 -> (t.length \div 256) % 256
                                 [] o = 5 -> t.length % 256
                                 [] o = 6 -> (t.scope \div 256) % 256
                                 [] o = 7 -> t.scope % 256]
               text == wire.obj.tokens.text
           IN  /\ "tokens" \in DOMAIN wire.obj
               /\ IsText(wire.obj.tokens)
               /\ Len(text) = 4 * ((8 * n + 2) \div 3)
               /\ Base64Decode(text) = Ok(bytes)
               /\ tokens = << [character |-> 1, length |-> 2, scope |-> 3],
                              [character |-> 1122850, length |-> 4080, scope |-> 514] >>
                     => text = << "A", "A", "A", "A", "A", "Q", "A", "C", "A", "A", "M", "A",
                                  "E", "S", "I", "i", "D", "/", "A", "C", "A", "g", "=", "=" >>

\* C14 witness: the two tokens of the test written as 24 characters.
C14_TestTokensWritten ==
    /\ op = "serialize"
    /\ ty = Struct("SemanticHighlightingInformation")
    /\ arg.tokens = Some(<< [character |-> 1, length |-> 2, scope |-> 3],
                            [character |-> 1122850, length |-> 4080, scope |-> 514] >>)
    /\ wire.obj.tokens =
          JText(<< "A", "A", "A", "A", "A", "Q", "A", "C", "A", "A", "M", "A",
                   "E", "S", "I", "i", "D", "/", "A", "C", "A", "g", "=", "=" >>)


\* C15: every SemanticHighlightingInformation is read back from what it was
\* written as, no tokens and no token kept apart: tokens = None is written
\* with no tokens key at all and an object with no tokens key is read as
\* None, tokens = Some(list), the empty list included, is read back as Some
\* of the same list.
C15_TokensRoundTrip ==
    /\ (op \in {"serialize", "round_trip"} /\ ty = Struct("SemanticHighlightingInformation"))
          => /\ IsNone(arg.tokens) <=> "tokens" \notin DOMAIN wire.obj
             /\ op = "round_trip" => res = Ok(arg)
    /\ (op = "deserialize" /\ ty = Struct("SemanticHighlightingInformation")
         /\ IsObj(arg) /\ DOMAIN arg.obj = {"line"} /\ IsNum(arg.obj.line))
          => res = Ok([line |-> arg.obj.line.num, tokens |-> None])

\* C15 witness: the empty list written as the empty string and read back as
\* Some of the empty list.
C15_EmptyListKept ==
    /\ op = "round_trip"
    /\ ty = Struct("SemanticHighlightingInformation")
    /\ arg.tokens = Some(<<>>)
    /\ wire.obj.tokens = JText(<<>>)
    /\ res = Ok(arg)


\* The structs whose data key holds the flat array of semantic tokens.
TokenStructs ==
    { Struct("SemanticTokens"), Struct("SemanticTokensPartialResult"),
      Struct("SemanticTokensEdit") }

\* A JSON array of integers that are u32 values.
IsFlatU32(j) ==
    IsArr(j) /\ \A i \in DOMAIN j.arr : IsNum(j.arr[i]) /\ j.arr[i].num >= 0

\* An object with a data key and every other key its struct requires.
HoldsData(t, j) ==
    /\ IsObj(j)
    /\ "data" \in DOMAIN j.obj
    /\ t = Struct("SemanticTokensEdit") => {"start", "deleteCount"} \subseteq DOMAIN j.obj

\* The token list of a decoded struct.
DataOf(t, v) == IF t = Struct("SemanticTokensEdit") THEN v.data[1] ELSE v.data

\* C16: decoding an object of SemanticTokens, SemanticTokensPartialResult or
\* SemanticTokensEdit whose data key holds an array of u32 integers fails
\* with the error "Length is not divisible by 5" whenever the length of the
\* array is not a multiple of 5, and otherwise succeeds with length / 5
\* tokens; an array that is malformed never yields a token list.
C16_LengthDivisibleBy5 ==
    (op = "deserialize" /\ ty \in TokenStructs /\ HoldsData(ty, arg)
      /\ IsFlatU32(arg.obj.data))
        => LET n == Len(arg.obj.data.arr)
           IN  IF n % 5 # 0
               THEN /\ IsErr(res)
                    /\ res.err.kind = "custom"
                    /\ res.err.what = "Length is not divisible by 5"
               ELSE /\ IsOk(res)
                    /\ ty = Struct("SemanticTokensEdit") => ~IsNone(res.ok.data)
                    /\ Len(DataOf(ty, res.ok)) = n \div 5

\* C16 witness: {"data":[1]} read as SemanticTokens fails on the length.
C16_OneIntegerRejected ==
    /\ op = "deserialize"
    /\ ty = Struct("SemanticTokens")
    /\ arg = JObj([key \in {"data"} |-> JArr(<<JNum(1)>>)])
    /\ IsErr(res)
    /\ res.err.what = "Length is not divisible by 5"

\* The array a is the flat encoding of the token list: five integers a
\* token, in list order.
IsFlatOf(a, tokens) ==
    /\ IsArr(a)
    /\ Len(a.arr) = 5 * Len(tokens)
    /\ \A i \in DOMAIN tokens :
          /\ a.arr[5 * i - 4] = JNum(tokens[i].delta_line)
          /\ a.arr[5 * i - 3] = JNum(tokens[i].delta_start)
          /\ a.arr[5 * i - 2] = JNum(tokens[i].length)
          /\ a.arr[5 * i - 1] = JNum(tokens[i].token_type)
          /\ a.arr[5 * i] = JNum(tokens[i].token_modifiers_bitset)

\* C17: a list of n tokens is written as one array of exactly 5n integers,
\* each token giving deltaLine, deltaStart, length, tokenType and
\* tokenModifiersBitset in list order, and reading what was written gives
\* the list back; a SemanticTokensEdit with data = None is written with no
\* data key, and an object with no data key is read as data = None.
C17_FlatEncoding ==
    /\ (op \in {"serialize", "round_trip"} /\ ty \in TokenStructs)
          => /\ IF ty = Struct("SemanticTokensEdit")
                THEN /\ IsNone(arg.data) <=> "data" \notin DOMAIN wire.obj
                     /\ ~IsNone(arg.data) => IsFlatOf(wire.obj.data, arg.data[1])
                ELSE /\ "data" \in DOMAIN wire.obj
                     /\ IsFlatOf(wire.obj.data, arg.data)
             /\ op = "round_trip" => res = Ok(arg)
    /\ (op = "deserialize" /\ ty = Struct("SemanticTokensEdit") /\ IsObj(arg)
         /\ DOMAIN arg.obj = {"start", "deleteCount"}
         /\ IsNum(arg.obj.start) /\ IsNum(arg.obj.deleteCount))
          => /\ IsOk(res)
             /\ IsNone(res.ok.data)

\* C17 witness: the token {2, 5, 3, 0, 3} written as [2,5,3,0,3] and read
\* back.
C17_OneTokenRoundTrip ==
    /\ op = "round_trip"
    /\ ty = Struct("SemanticTokens")
    /\ arg.data = << SemanticTokenOf(<<2, 5, 3, 0, 3>>) >>
    /\ wire.obj.data = JArr(<<JNum(2), JNum(5), JNum(3), JNum(0), JNum(3)>>)
    /\ res = Ok(arg)


\* C18: a WorkspaceEdit keeps an empty changes map apart from no map:
\* Some(empty map) is written as {"changes":{}} and read back as Some(empty
\* map), None is written as {} and {} is read as None, and a map with
\* entries is written with the string of each Url as its key and read back
\* as the same map.
C18_EmptyMapKept ==
    /\ (op \in {"serialize", "round_trip"} /\ ty = Struct("WorkspaceEdit")
         /\ IsNone(arg.document_changes))
          => /\ IF IsNone(arg.changes) THEN wire = JObj(EmptyMap)
                ELSE /\ DOMAIN wire.obj = {"changes"}
                     /\ IsObj(wire.obj.changes)
                     /\ DOMAIN wire.obj.changes.obj = DOMAIN arg.changes[1]
                     /\ \A u \in DOMAIN arg.changes[1] :
                           wire.obj.changes.obj[u] =
                              Serialize(Vec(Struct("TextEdit")), arg.changes[1][u])
             /\ op = "round_trip" => res = Ok(arg)
    /\ (op = "deserialize" /\ ty = Struct("WorkspaceEdit"))
          => /\ arg = JObj(EmptyMap)
                  => res = Ok([changes |-> None, document_changes |-> None])
             /\ arg = JObj([key \in {"changes"} |-> JObj(EmptyMap)])
                  => res = Ok([changes |-> Some(EmptyMap), document_changes |-> None])

\* C18 witness: Some(empty map) written as {"changes":{}} and read back.
C18_EmptyChangesRoundTrip ==
    /\ op = "round_trip"
    /\ ty = Struct("WorkspaceEdit")
    /\ arg.changes = Some(EmptyMap)
    /\ wire = JObj([key \in {"changes"} |-> JObj(EmptyMap)])
    /\ res = Ok(arg)
    /\ res # Ok([changes |-> None, document_changes |-> None])


\* C19: the request table is consistent: for every method name literal that
\* lsp_request! accepts, the marker type it expands to is declared with an
\* impl of Request, and the METHOD of that impl is the literal.
C19_TableConsistent ==
    (op = "check_macro" /\ IsOk(LspRequest(arg.str)))
        => /\ IsOk(res)
           /\ res.ok.marker = LspRequest(arg.str).ok
           /\ \E i \in DOMAIN RequestImpls : RequestImpls[i][1] = res.ok.marker
           /\ res.ok.METHOD = arg.str

\* C19 witness: "textDocument/rename" expands to Rename, whose METHOD is
\* "textDocument/rename".
C19_RenameChecked ==
    /\ op = "check_macro"
    /\ arg = JStr("textDocument/rename")
    /\ res = Ok([marker |-> "Rename", METHOD |-> "textDocument/rename"])


\* The object j holds, under the key of a field of the struct t, a value
\* that the field does not read, or j is not read by a flattened field.
FieldFails(t, j) ==
    /\ IsObj(j)
    /\ \E i \in DOMAIN StructFields(t) :
          LET f == StructFields(t)[i]
          IN  IF f.flatten THEN IsErr(Deserialize(f.ty, j))
              ELSE f.key \in DOMAIN j.obj /\ IsErr(DeserializeField(f, j.obj[f.key]))

\* The value x is an object whose valueSet is an array holding an integer
\* that is no discriminant of the enum.
HoldsUnknownTag(name, x) ==
    /\ IsObj(x)
    /\ "valueSet" \in DOMAIN x.obj
    /\ IsArr(x.obj.valueSet)
    /\ \E i \in DOMAIN x.obj.valueSet.arr :
          /\ IsNum(x.obj.valueSet.arr[i])
          /\ x.obj.valueSet.arr[i].num \notin Discriminants(name)

\* C20: a value nested in a struct that fails to decode fails the decode of
\* the whole struct: an object holding, under the key of a field, a value
\* the field does not read is an error, never a struct with that field
\* dropped, defaulted or None; so a Diagnostic whose severity is an integer
\* outside 1..4 and a CompletionItemCapability whose tagSupport.valueSet
\* holds an unknown tag integer are errors. (The variants of an untagged
\* enum are each a decode of their own; the enum goes on to the next.)
C20_NestedFailureFailsAll ==
    op = "deserialize" =>
        /\ (ty.k = "struct" /\ FieldFails(ty, arg)) => IsErr(res)
        /\ (ty = Struct("Diagnostic") /\ IsObj(arg) /\ "severity" \in DOMAIN arg.obj
             /\ IsNum(arg.obj.severity) /\ arg.obj.severity.num \notin 1..4)
              => IsErr(res)
        /\ (ty = Struct("CompletionItemCapability") /\ IsObj(arg)
             /\ "tagSupport" \in DOMAIN arg.obj
             /\ HoldsUnknownTag("CompletionItemTag", arg.obj.tagSupport))
              => IsErr(res)

\* C20 witness: a Diagnostic with a range, a message and severity 5 is an
\* error that cites the severity.
C20_SeverityFiveFailsDiagnostic ==
    /\ op = "deserialize"
    /\ ty = Struct("Diagnostic")
    /\ IsObj(arg)
    /\ DOMAIN arg.obj = {"range", "message", "severity"}
    /\ IsOk(Deserialize(Struct("Range"), arg.obj.range))
    /\ arg.obj.message = JStr("a")
    /\ arg.obj.severity = JNum(5)
    /\ IsErr(res)
    /\ res.err.got = JNum(5)



\* C21: encode and decode are functions of their input: two equal values are
\* written as the same JSON text, a WorkspaceEdit whose changes or a
\* FormattingOptions whose properties hold two entries included, and the
\* same text is read as equal values.
C21_Deterministic ==
    /\ op = "to_string_twice" => res = Ok(wire)
    /\ op = "deserialize" => res = HeldResult(ty, Deserialize(ty, arg))

\* C22: FormattingOptions writes every entry of its properties map as one
\* more key of the object that holds tabSize and insertSpaces, with no
\* "properties" key and nothing added by an empty map, leaves out the
\* optional fields that are None, and is read back from what it was written
\* as, the keys that name no field collected into properties again.
C22_PropertiesFlattened ==
    (op = "round_trip" /\ ty = Struct("FormattingOptions"))
        => /\ DOMAIN wire.obj =
                 {"tabSize", "insertSpaces"} \cup DOMAIN arg.properties
                 \cup (IF IsNone(arg.trim_trailing_whitespace) THEN {}
                       ELSE {"trimTrailingWhitespace"})
           /\ \A key \in DOMAIN arg.properties :
                 wire.obj[key] = Serialize(Untagged("FormattingProperty"), arg.properties[key])
           /\ res = Ok(arg)


\* C23: every list of Commands and CodeActions is read back from what it
\* was written as, each element in the variant it had: a CodeAction, with a
\* command object of its own or without, is never read as a Command, and a
\* Command is always read as a Command.
C23_VariantsKept ==
    (op = "round_trip" /\ ty = CodeActionResponse)
        => /\ IsArr(wire)
           /\ Len(wire.arr) = Len(arg.vec)
           /\ IsOk(res)
           /\ Len(res.ok.vec) = Len(arg.vec)
           /\ \A i \in DOMAIN arg.vec :
                 /\ VariantOf(res.ok.vec[i]) = VariantOf(arg.vec[i])
                 /\ res.ok.vec[i] = arg.vec[i]

\* C23 witness: a Command and a CodeAction that holds a command, read back
\* as a Command and a CodeAction.
C23_CommandInsideCodeAction ==
    /\ op = "round_trip"
    /\ ty = CodeActionResponse
    /\ Len(arg.vec) = 2
    /\ VariantOf(arg.vec[1]) = "Command"
    /\ VariantOf(arg.vec[2]) = "CodeAction"
    /\ ~IsNone(arg.vec[2].CodeAction.command)
    /\ "command" \in DOMAIN wire.arr[2].obj
    /\ res = Ok(arg)


\* C24: an object whose only key is a well-formed capabilities is read as
\* InitializeParams, rootUri and every other key missing: root_uri is None,
\* and so is every other optional field; and whatever keys come with a
\* well-formed capabilities, a decode that succeeds with no rootUri key
\* gives root_uri = None.
C24_RootUriCanBeMissing ==
    (op = "deserialize" /\ ty = Struct("InitializeParams") /\ IsObj(arg)
      /\ "capabilities" \in DOMAIN arg.obj
      /\ IsOk(Deserialize(Struct("ClientCapabilities"), arg.obj.capabilities)))
        => /\ DOMAIN arg.obj = {"capabilities"}
                => res = Ok([process_id |-> None, root_path |-> None, root_uri |-> None,
                             initialization_options |-> None,
                             capabilities |->
                                Deserialize(Struct("ClientCapabilities"),
                                            arg.obj.capabilities).ok,
                             trace |-> None, workspace_folders |-> None,
                             client_info |-> None])
           /\ ("rootUri" \notin DOMAIN arg.obj /\ IsOk(res)) => IsNone(res.ok.root_uri)

\* C24 witness: { "capabilities": {} } read with root_uri = None.
C24_CapabilitiesAlone ==
    /\ op = "deserialize"
    /\ ty = Struct("InitializeParams")
    /\ arg = JObj([key \in {"capabilities"} |-> JObj(EmptyMap)])
    /\ IsOk(res)
    /\ IsNone(res.ok.root_uri)
    /\ res.ok.capabilities =
          [workspace |-> None, text_document |-> None, window |-> None,
           experimental |-> None]


\* C25: the notification table is consistent: for every method name literal
\* that lsp_notification! accepts, "telemetry/event" and
\* "textDocument/willSave" included, the marker type it expands to is
\* declared in the notification module with an impl of Notification, and
\* the METHOD of that impl is the literal.
C25_NotificationTableConsistent ==
    (op = "check_notification_macro" /\ IsOk(LspNotification(arg.str)))
        => /\ IsOk(res)
           /\ res.ok.marker = LspNotification(arg.str).ok
           /\ \E i \in DOMAIN NotificationImpls : NotificationImpls[i][1] = res.ok.marker
           /\ res.ok.METHOD = arg.str

\* C26: a method name names one marker type: the METHOD a macro resolves is
\* the METHOD of no other marker type, the impls of Request and of
\* Notification taken together.
C26_MethodNamesUnique ==
    (op \in {"check_macro", "check_notification_macro"} /\ IsOk(res))
        => Cardinality({ b \in Bindings : b.METHOD = res.ok.METHOD }) = 1

\* The inputs whose decode as the untagged enum `name` yields `variant`.
DecodedAs(name, variant) ==
    { j \in JsonInputs(Untagged(name)) :
        LET r == Deserialize(Untagged(name), j)
        IN  IsOk(r) /\ VariantOf(r.ok) = variant }

\* C27: every declared variant of an untagged enum is the outcome of a
\* decode: for the enum a decode was asked of, each variant is what some
\* input decodes to, and for DocumentChanges some input decodes to
\* Operations holding an empty list.
C27_EveryVariantDecoded ==
    (op = "deserialize" /\ ty.k = "untagged")
        => /\ \A i \in DOMAIN UntaggedVariants(ty.name) :
                 DecodedAs(ty.name, UntaggedVariants(ty.name)[i][1]) # {}
           /\ ty.name = "DocumentChanges"
                 => \E j \in JsonInputs(ty) :
                       Deserialize(ty, j) = Ok([Operations |-> <<>>])

C29_NeverPanics ==
    (op = "deserialize" /\ ty = Struct("SemanticHighlightingInformation")
      /\ IsObj(arg) /\ "tokens" \in DOMAIN arg.obj)
        => /\ IsOk(res) \/ (IsErr(res) /\ res.err.kind # "panic")
           /\ (IsText(arg.obj.tokens) /\ IsOk(Base64Decode(Chars(arg.obj.tokens))))
                 => LET chunks == ChunksExact8(Base64Decode(Chars(arg.obj.tokens)).ok)
                    IN  \A i \in DOMAIN chunks :
                           /\ Len(chunks[i]) = 8
                           /\ \A h \in DOMAIN Conversions(chunks[i]) :
                                  LET c == Conversions(chunks[i])[h]
                                  IN  ~IsNone(c.slice) /\ Len(c.slice[1]) = c.n

\* C29 witness: a text of more than eight bytes, not a multiple of 8, has
\* been read into its whole chunks.
C29_NineBytesRead ==
    /\ op = "deserialize"
    /\ ty = Struct("SemanticHighlightingInformation")
    /\ IsObj(arg) /\ "tokens" \in DOMAIN arg.obj
    /\ IsText(arg.obj.tokens)
    /\ IsOk(Base64Decode(Chars(arg.obj.tokens)))
    /\ Len(Base64Decode(Chars(arg.obj.tokens)).ok) > 8
    /\ Len(Base64Decode(Chars(arg.obj.tokens)).ok) % 8 # 0
    /\ IsOk(res)
    /\ Len(res.ok.tokens[1]) = Len(Base64Decode(Chars(arg.obj.tokens)).ok) \div 8

\* The string s is before the string t in the order of strings: at the
\* first place where they differ s has the lower byte, or s ends there.
StrBefore(s, t) ==
    \E n \in 0..Len(s) :
        /\ n <= Len(t)
        /\ \A i \in 1..n : s[i] = t[i]
        /\ \/ n = Len(s) /\ n < Len(t)
           \/ n < Len(s) /\ n < Len(t) /\ ByteOf(s[n + 1]) < ByteOf(t[n + 1])

\* C30: equality, order and hash of Uri agree with the string form. For the
\* two Uris compared: they are equal iff their strings are iff cmp is
\* Equal; equal Uris have the same hash; partial_cmp is Some of cmp; and cmp
\* is the order of the strings, a total one: Less iff the string of a is
\* before that of b, Greater iff it is after, the reverse comparison gives
\* the reverse, and with any third Uri the order is transitive.
C30_AgreeWithString ==
    op = "compare_uris"
        => LET a == arg.a
               b == arg.b
           IN  /\ res.ok.eq <=> as_str(a) = as_str(b)
               /\ res.ok.eq <=> res.ok.cmp = "Equal"
               /\ res.ok.eq => res.ok.hash_a = res.ok.hash_b
               /\ res.ok.partial_cmp = Some(res.ok.cmp)
               /\ res.ok.cmp = "Less" <=> StrBefore(as_str(a), as_str(b))
               /\ res.ok.cmp = "Greater" <=> StrBefore(as_str(b), as_str(a))
               /\ res.ok.cmp = "Less" <=> cmp(b, a) = "Greater"
               /\ \A c \in Uris :
                      (res.ok.cmp # "Greater" /\ cmp(b, c) # "Greater")
                          => cmp(a, c) # "Greater"

\* C30 witness: a:a and a:/a, of different lengths, have been compared:
\* a:a is Greater, for "a" is after "/".
C30_ShorterIsGreater ==
    /\ op = "compare_uris"
    /\ as_str(arg.a) = <<"a", ":", "a">>
    /\ as_str(arg.b) = <<"a", ":", "/", "a">>
    /\ res.ok.cmp = "Greater"
    /\ ~res.ok.eq

====
